---- MODULE Spec2Model ----
(***************************************************************************)
(* A state-machine model of the scalebox Python SDK.                       *)
(*                                                                         *)
(* The module holds several independent machines, one per subsystem, each  *)
(* with its own specification:                                             *)
(*   SpecRun     the code interpreter's run_code and its frame             *)
(*               demultiplexer parse_output (sync and async facades)       *)
(*   SpecWatch   the filesystem WatchHandle (stop / get_new_events)        *)
(*   SpecSandbox the sandbox lifecycle: Sandbox.create with its health     *)
(*               gate, Sandbox.connect, the management kill and the        *)
(*               instance methods forwarding the handle's ConnectionConfig *)
(*   SpecStart   the process start handshake of commands._start / connect  *)
(*   SpecCommands commands.run and the kill of Commands and Pty             *)
(*   SpecContext the code contexts: the argument check of run_code,        *)
(*               create_code_context and destroy_context                   *)
(*   SpecFiles   the filesystem driver: write, read, make_dir, list and    *)
(*               watch_dir                                                 *)
(*   SpecConfig  ConnectionConfig and the request timeout of a call        *)
(*   SpecApi     the mapping of HTTP statuses to exceptions, pause, resume *)
(*   SpecHeaders the headers of the requests to the sandbox agent          *)
(*   SpecPools   the connection pools of a handle and its kill             *)
(*   SpecBatch   the batch form of Filesystem.write                        *)
(*   SpecUrl     the upload and download URLs of a handle                  *)
(*   SpecDeadline the deadline of run_code and the Execute RPC             *)
(* A machine leaves the variables of the other machines unchanged.         *)
(***************************************************************************)
EXTENDS Integers, Sequences, FiniteSets, TLC

None == "None"

(***************************************************************************)
(* Bounds of the model.                                                    *)
(***************************************************************************)
\* longest Execute stream, in frames
MaxFrames == 3
\* most filesystem events the sandbox buffers for a watcher
MaxEvents == 2
\* most get_new_events calls counted after a completed stop
MaxPolls == 2
\* longest Start / Connect stream, in frames
MaxStartFrames == 2
\* most code contexts the sandbox issues
MaxContexts == 2
\* most watchers the sandbox holds at once
MaxWatchers == 1
\* most connections one pool of a handle keeps open
MaxConns == 2
\* most handles built in one run
MaxHandles == 2
\* most entries of one batch write
MaxBatch == 2

\* The seconds of clock time that are followed
MaxClock == 6

(***************************************************************************)
(* State.                                                                  *)
(***************************************************************************)
\* run_code and parse_output
VARIABLES
    rc_pc,          \* position of the run_code call: idle, streaming, returned, raised
    rc_facade,      \* "sync" (code_interpreter_sync) or "async" (code_interpreter_async)
    rc_handlers,    \* on_stdout, on_stderr, on_result, on_error: none, plain or coro
    emitted,        \* the frames the server has written to the Execute stream, in order
    closed,         \* None while the stream is open, else its final status: ok or error
    consumed,       \* number of frames the response iterator has yielded so far
    execution,      \* the Execution accumulator
    calls,          \* handler bodies in the order they started to run
    tasks           \* tasks made by asyncio.create_task, in creation order


\* WatchHandle
VARIABLES
    w_closed,       \* WatchHandle._closed
    w_watcher,      \* the sandbox still holds the watcher with the handle's watcher_id
    w_buffer,       \* the events the sandbox has buffered for the watcher
    w_stopCalled,   \* stop() has been called, whether or not it returned
    w_stopped,      \* stop() has returned normally
    w_polls,        \* get_new_events calls made after stop() returned normally
    w_last          \* the last call on the handle and how it ended


\* sandbox lifecycle
VARIABLES
    sb_pc,          \* position of the create/connect call: idle, gate, returned, raised
    sb_op,          \* the call sb_pc is about: create or connect
    sb_exc,         \* the exception that call raised, or None
    sb_domain,      \* sandbox_domain of the handle being built
    sb_alive,       \* the management API has the sandbox
    sb_handle,      \* a handle has been returned to the caller
    sb_config,      \* __dict__ of the handle's ConnectionConfig
    sb_config0,     \* sb_config as it was when the handle was built
    sb_elapsed,     \* the health gate's elapsed, in tenths of a second
    sb_probes,      \* health sb_probes issued by the call sb_pc is about
    sb_last,        \* the last call on the sandbox machine and how it ended
    sb_prev         \* the call before it


\* process start handshake
VARIABLES
    st_pc,          \* position of the _start/connect call: idle, waiting, returned, raised
    st_op,          \* "start" (commands.run / _start) or "connect" (commands.connect)
    st_facade,      \* "sync" (sandbox_sync) or "async" (sandbox_async)
    st_frames,      \* the frames the agent has written to the stream, in order
    st_ended,       \* the agent has ended the stream
    st_read,        \* frames the call has read from the stream
    st_pid,         \* <<pid>> of the CommandHandle returned, <<>> when there is none
    st_exc          \* the exception the call raised, or None


\* commands: run and kill
VARIABLES
    cm_running,     \* pids of the processes the agent is running
    cm_input,       \* per facade, <<the arguments of the last commands.run>>
    cm_request,     \* per facade, <<the StartRequest that call sent>>
    cm_result,      \* per facade, what that call returned: handle or result
    cm_last         \* the last kill call, the agent's reply and how the call ended


\* code contexts and the argument check of run_code
VARIABLES
    cx_contexts,    \* ids of the contexts the sandbox holds
    cx_issued,      \* number of context ids the sandbox has issued so far
    cx_last,        \* the last call, the sandbox's reply to it and how it ended
    cx_prev         \* the call before it


\* the filesystem driver of one sandbox handle
VARIABLES
    fs_files,       \* the sandbox's files: path -> <<>> or <<bytes>>
    fs_written,     \* per path, the bytes of the last write that succeeded
    fs_dirs,        \* the directories of the sandbox
    fs_watchers,    \* number of watchers the sandbox holds
    fs_reported,    \* the envd version the server reported for the sandbox
    fs_last         \* the last call of the driver and how it ended


\* the connection configuration and the request timeout of a call
VARIABLES
    cf_env,         \* the SBX_* variables the ConnectionConfig was built under
    cf_kw,          \* the arguments the ConnectionConfig was built with
    cf_config,      \* the ConnectionConfig
    cf_call         \* the last call that resolved a request timeout


\* the error mapping of HTTP statuses and the management pause
VARIABLES
    ap_state,       \* per sandbox: "running", "paused" or "gone"
    ap_last         \* the last mapping or pause call and how it ended


\* the headers of the requests a handle sends to the agent
VARIABLES
    hd_token,       \* the envd access token the handle was created with
    hd_config,      \* debug and headers of the handle's ConnectionConfig
    hd_last         \* the last request to the agent and the headers it carried


\* the pooled HTTP resources of one sandbox handle
VARIABLES
    pl_handles,     \* number of handles built so far
    pl_pools,       \* the open pools of the newest handle: pool -> connections
    pl_killed,      \* the management API has deleted the sandbox
    pl_last         \* the last kill of the handle and how it ended


\* the batch form of files.write
VARIABLES
    bw_files,       \* the sandbox's files: path -> <<>> or <<bytes>>
    bw_last         \* the last batch write: entries, answers, requests, outcome


\* the file URLs of a handle
VARIABLES
    ur_token,       \* the envd access token of the handle, None without one
    ur_last         \* the last URL that was asked for


\* the deadline of run_code
VARIABLES
    dl_pool_timeout,    \* the read timeout of the handle's urllib3 pool
    dl_now,             \* time.time(), in seconds
    dl_silent,          \* seconds since the stream's last frame
    dl_pc,              \* where run_code is: idle, streaming, returned, raised
    dl_call             \* the run_code call under way, or the last one


runVars == <<rc_pc, rc_facade, rc_handlers, emitted, closed, consumed,
             execution, calls, tasks>>

watchVars == <<w_closed, w_watcher, w_buffer, w_stopCalled, w_stopped,
               w_polls, w_last>>

sandboxVars == <<sb_pc, sb_op, sb_exc, sb_domain, sb_alive, sb_handle, sb_config,
                 sb_config0, sb_elapsed, sb_probes, sb_last, sb_prev>>

startVars == <<st_pc, st_op, st_facade, st_frames, st_ended, st_read, st_pid,
               st_exc>>

commandsVars == <<cm_running, cm_input, cm_request, cm_result, cm_last>>

contextVars == <<cx_contexts, cx_issued, cx_last, cx_prev>>

filesVars == <<fs_files, fs_written, fs_dirs, fs_watchers, fs_reported,
               fs_last>>

configVars == <<cf_env, cf_kw, cf_config, cf_call>>

apiVars == <<ap_state, ap_last>>

headersVars == <<hd_token, hd_config, hd_last>>

poolsVars == <<pl_handles, pl_pools, pl_killed, pl_last>>

batchVars == <<bw_files, bw_last>>

urlVars == <<ur_token, ur_last>>

deadlineVars == <<dl_pool_timeout, dl_now, dl_silent, dl_pc, dl_call>>

vars == <<runVars, watchVars, sandboxVars, startVars, commandsVars,
          contextVars, filesVars, configVars, apiVars, headersVars,
          poolsVars, batchVars, urlVars, deadlineVars>>

\* What each machine leaves alone
notRunVars == <<watchVars, sandboxVars, startVars, commandsVars, contextVars,
                filesVars, configVars, apiVars, headersVars, poolsVars,
                batchVars, urlVars, deadlineVars>>
notWatchVars == <<runVars, sandboxVars, startVars, commandsVars, contextVars,
                  filesVars, configVars, apiVars, headersVars, poolsVars,
                  batchVars, urlVars, deadlineVars>>
notSandboxVars == <<runVars, watchVars, startVars, commandsVars, contextVars,
                    filesVars, configVars, apiVars, headersVars, poolsVars,
                    batchVars, urlVars, deadlineVars>>
notStartVars == <<runVars, watchVars, sandboxVars, commandsVars, contextVars,
                  filesVars, configVars, apiVars, headersVars, poolsVars,
                  batchVars, urlVars, deadlineVars>>
notCommandsVars == <<runVars, watchVars, sandboxVars, startVars, contextVars,
                     filesVars, configVars, apiVars, headersVars, poolsVars,
                     batchVars, urlVars, deadlineVars>>
notContextVars == <<runVars, watchVars, sandboxVars, startVars, commandsVars,
                    filesVars, configVars, apiVars, headersVars, poolsVars,
                    batchVars, urlVars, deadlineVars>>
notFilesVars == <<runVars, watchVars, sandboxVars, startVars, commandsVars,
                  contextVars, configVars, apiVars, headersVars, poolsVars,
                  batchVars, urlVars, deadlineVars>>
notConfigVars == <<runVars, watchVars, sandboxVars, startVars, commandsVars,
                   contextVars, filesVars, apiVars, headersVars, poolsVars,
                   batchVars, urlVars, deadlineVars>>
notApiVars == <<runVars, watchVars, sandboxVars, startVars, commandsVars,
                contextVars, filesVars, configVars, headersVars, poolsVars,
                batchVars, urlVars, deadlineVars>>
notHeadersVars == <<runVars, watchVars, sandboxVars, startVars, commandsVars,
                    contextVars, filesVars, configVars, apiVars, poolsVars,
                    batchVars, urlVars, deadlineVars>>
notPoolsVars == <<runVars, watchVars, sandboxVars, startVars, commandsVars,
                  contextVars, filesVars, configVars, apiVars, headersVars,
                  batchVars, urlVars, deadlineVars>>
notBatchVars == <<runVars, watchVars, sandboxVars, startVars, commandsVars,
                  contextVars, filesVars, configVars, apiVars, headersVars,
                  poolsVars, urlVars, deadlineVars>>
notUrlVars == <<runVars, watchVars, sandboxVars, startVars, commandsVars,
                contextVars, filesVars, configVars, apiVars, headersVars,
                poolsVars, batchVars, deadlineVars>>
notDeadlineVars == <<runVars, watchVars, sandboxVars, startVars,
                     commandsVars, contextVars, filesVars, configVars,
                     apiVars, headersVars, poolsVars, batchVars, urlVars>>

(***************************************************************************)
(* ------------------------- run_code / parse_output --------------------- *)
(***************************************************************************)
HandlerNames == {"on_stdout", "on_stderr", "on_result", "on_error"}

Contents == {"a", "b"}

\* An ExecuteResponse: one of the oneof fields stdout, stderr, result, error is
\* set, or none of them is ("other").
Frames ==
    [kind : {"stdout", "stderr"}, content : Contents]
        \cup [kind : {"result"}, is_main_result : BOOLEAN, execution_count : {1, 2}]
        \cup [kind : {"error"}, name : {"ValueError"}]
        \cup [kind : {"other"}]

\* The handlers a facade is called with. All four are of one kind: absent,
\* a plain function, or (cooperative facade only, where a task scheduler
\* runs) a coroutine function.
HandlerKinds(facade) ==
    IF facade = "async" THEN {"none", "plain", "coro"} ELSE {"none", "plain"}

\* Execution() as constructed by run_code
NewExecution ==
    [stdout |-> <<>>, stderr |-> <<>>, results |-> <<>>,
     error |-> None, execution_count |-> None]

\* One handler invocation of parse_output: nothing without a handler, a task
\* handed to the scheduler for a coroutine function, an inline call otherwise.
\* Returns the calls made inline and the tasks spawned.
Dispatch(handlers, h, arg) ==
    IF handlers[h] = "none" THEN [inline |-> <<>>, spawned |-> <<>>]
    ELSE IF handlers[h] = "coro"
        THEN [inline |-> <<>>,
              spawned |-> <<[h |-> h, arg |-> arg, st |-> "scheduled"]>>]
        ELSE [inline |-> <<[h |-> h, arg |-> arg, late |-> FALSE]>>,
              spawned |-> <<>>]

\* The stdout branch with the log written at the front instead of the end
StdoutFrame_prepend(ex, output, handlers) ==
    [ex |-> [ex EXCEPT !.stdout = <<output.content>> \o @]]
        @@ Dispatch(handlers, "on_stdout", output.content)

\* if output.HasField("stdout"): append to logs.stdout, call on_stdout
StdoutFrame(ex, output, handlers) ==
    [ex |-> [ex EXCEPT !.stdout = Append(@, output.content)]]
        @@ Dispatch(handlers, "on_stdout", output.content)

\* elif output.HasField("stderr"): append to logs.stderr, call on_stderr
StderrFrame(ex, output, handlers) ==
    [ex |-> [ex EXCEPT !.stderr = Append(@, output.content)]]
        @@ Dispatch(handlers, "on_stderr", output.content)

\* The result branch storing every Result as the main result
ResultFrame_allmain(ex, output, handlers) ==
    [ex |-> [ex EXCEPT
                !.results = Append(@, [output EXCEPT !.is_main_result = TRUE]),
                !.execution_count = output.execution_count]]
        @@ Dispatch(handlers, "on_result", output)

\* elif output.HasField("result"): append the Result, call on_result, then
\* promote the execution count of a main result. The protobuf field
\* execution_count is an integer and never None.
ResultFrame(ex, output, handlers) ==
    [ex |-> [ex EXCEPT
                !.results = Append(@, output),
                !.execution_count =
                    IF output.is_main_result
                    THEN output.execution_count ELSE @]]
        @@ Dispatch(handlers, "on_result", output)

\* The error branch with the assignment execution.error = error left out
ErrorFrame_unstored(ex, output, handlers) ==
    [ex |-> ex] @@ Dispatch(handlers, "on_error", output.name)

\* elif output.HasField("error"): store the ExecutionError, call on_error
ErrorFrame(ex, output, handlers) ==
    [ex |-> [ex EXCEPT !.error = output.name]]
        @@ Dispatch(handlers, "on_error", output.name)

\* parse_output(execution, output, on_stdout, on_stderr, on_result, on_error)
parse_output(ex, output, handlers) ==
    IF output.kind = "stdout" THEN StdoutFrame(ex, output, handlers)
    ELSE IF output.kind = "stderr" THEN StderrFrame(ex, output, handlers)
    ELSE IF output.kind = "result" THEN ResultFrame(ex, output, handlers)
    ELSE IF output.kind = "error" THEN ErrorFrame(ex, output, handlers)
    ELSE [ex |-> ex, inline |-> <<>>, spawned |-> <<>>]

RunInit ==
    /\ rc_pc = "idle"
    /\ rc_facade = None
    /\ rc_handlers = [h \in HandlerNames |-> "none"]
    /\ emitted = <<>>
    /\ closed = None
    /\ consumed = 0
    /\ execution = NewExecution
    /\ calls = <<>>
    /\ tasks = <<>>

\* run_code is called: the request is sent and the response stream opened.
RunCode(facade, kind) ==
    /\ rc_pc = "idle"
    /\ rc_pc' = "streaming"
    /\ rc_facade' = facade
    /\ rc_handlers' = [h \in HandlerNames |-> kind]
    /\ execution' = NewExecution
    /\ UNCHANGED <<emitted, closed, consumed, calls, tasks>>
    /\ UNCHANGED notRunVars

\* The sandbox writes one more frame to the stream.
ServerEmit(frame) ==
    /\ rc_pc # "idle"
    /\ closed = None
    /\ Len(emitted) < MaxFrames
    /\ emitted' = Append(emitted, frame)
    /\ UNCHANGED <<rc_pc, rc_facade, rc_handlers, closed, consumed,
                   execution, calls, tasks>>
    /\ UNCHANGED notRunVars

\* The sandbox ends the stream, cleanly or with an error in the end-of-stream
\* trailer.
ServerClose(status) ==
    /\ rc_pc # "idle"
    /\ closed = None
    /\ closed' = status
    /\ UNCHANGED <<rc_pc, rc_facade, rc_handlers, emitted, consumed,
                   execution, calls, tasks>>
    /\ UNCHANGED notRunVars

\* One turn of the loop "for response in response_stream: parse_output(...)".
RecvFrame ==
    /\ rc_pc = "streaming"
    /\ consumed < Len(emitted)
    /\ LET r == parse_output(execution, emitted[consumed + 1], rc_handlers)
       IN /\ execution' = r.ex
          /\ calls' = calls \o r.inline
          /\ tasks' = tasks \o r.spawned
    /\ consumed' = consumed + 1
    /\ UNCHANGED <<rc_pc, rc_facade, rc_handlers, emitted, closed>>
    /\ UNCHANGED notRunVars

\* The iterator is exhausted: _execute_iterator raises the stream's error if
\* it has one, otherwise run_code returns the execution.
StreamEnd ==
    /\ rc_pc = "streaming"
    /\ consumed = Len(emitted)
    /\ closed # None
    /\ rc_pc' = IF closed = "ok" THEN "returned" ELSE "raised"
    /\ UNCHANGED <<rc_facade, rc_handlers, emitted, closed, consumed,
                   execution, calls, tasks>>
    /\ UNCHANGED notRunVars

\* The event loop starts the oldest task that has not started yet. The loop
\* runs it whenever the run_code coroutine is suspended or has finished.
TaskStart ==
    /\ rc_pc # "idle"
    /\ \E i \in 1..Len(tasks) :
        /\ tasks[i].st = "scheduled"
        /\ \A j \in 1..(i - 1) : tasks[j].st # "scheduled"
        /\ tasks' = [tasks EXCEPT ![i].st = "running"]
        /\ calls' = Append(calls, [h |-> tasks[i].h, arg |-> tasks[i].arg,
                                   late |-> rc_pc = "returned"])
    /\ UNCHANGED <<rc_pc, rc_facade, rc_handlers, emitted, closed, consumed,
                   execution>>
    /\ UNCHANGED notRunVars

\* A running coroutine handler runs to its end.
TaskFinish ==
    /\ \E i \in 1..Len(tasks) :
        /\ tasks[i].st = "running"
        /\ tasks' = [tasks EXCEPT ![i].st = "done"]
    /\ UNCHANGED <<rc_pc, rc_facade, rc_handlers, emitted, closed, consumed,
                   execution, calls>>
    /\ UNCHANGED notRunVars

(***************************************************************************)
(* Claims about run_code.                                                  *)
(***************************************************************************)
\* The frames of the given kinds among the first n emitted, in order
FramesOf(kinds, n) ==
    SelectSeq(SubSeq(emitted, 1, n), LAMBDA f : f.kind \in kinds)

\* The handler bodies started so far for the given handlers, in order
CallsOf(hs) == SelectSeq(calls, LAMBDA c : c.h \in hs)

\* The tasks created so far for the given handlers, in order
TasksOf(hs) == SelectSeq(tasks, LAMBDA t : t.h \in hs)

HandlerOf(kind) ==
    CASE kind = "stdout" -> "on_stdout"
      [] kind = "stderr" -> "on_stderr"
      [] kind = "result" -> "on_result"
      [] kind = "error" -> "on_error"

\* What the handler of a frame is called with
ArgOf(f) ==
    CASE f.kind \in {"stdout", "stderr"} -> f.content
      [] f.kind = "result" -> f
      [] f.kind = "error" -> f.name

AllPlain == \A h \in HandlerNames : rc_handlers[h] = "plain"

\* C1: with plain handlers, the stdout and stderr frames read so far have
\* each been handed to on_stdout / on_stderr exactly once, in arrival order
\* (also relative to each other), and logs.stdout / logs.stderr hold the same
\* sequences; when run_code returns this covers the whole stream.
C1_OrderedDelivery ==
    (rc_pc # "idle" /\ AllPlain) =>
        LET out == FramesOf({"stdout"}, consumed)
            err == FramesOf({"stderr"}, consumed)
            both == FramesOf({"stdout", "stderr"}, consumed)
            seen == CallsOf({"on_stdout", "on_stderr"})
        IN /\ execution.stdout = [i \in 1..Len(out) |-> out[i].content]
           /\ execution.stderr = [i \in 1..Len(err) |-> err[i].content]
           /\ Len(seen) = Len(both)
           /\ \A i \in 1..Len(both) :
                /\ seen[i].h = HandlerOf(both[i].kind)
                /\ seen[i].arg = both[i].content
           /\ (rc_pc = "returned" => consumed = Len(emitted))

\* C1 witness: a returned run with plain handlers that saw two different
\* stdout frames around a stderr frame.
C1_Witness ==
    /\ rc_pc = "returned"
    /\ AllPlain
    /\ Len(emitted) = 3
    /\ emitted[1] = [kind |-> "stdout", content |-> "b"]
    /\ emitted[2].kind = "stderr"
    /\ emitted[3] = [kind |-> "stdout", content |-> "a"]
    /\ Len(calls) = 3

\* C2: once run_code has returned, no handler callback starts and none is
\* still scheduled or running.
C2_NoCallbackAfterReturn ==
    rc_pc = "returned" =>
        /\ \A i \in 1..Len(tasks) : tasks[i].st = "done"
        /\ \A i \in 1..Len(calls) : ~calls[i].late

MainResults(results) == SelectSeq(results, LAMBDA r : r.is_main_result)

\* C16 as stated: every Execution returned by run_code holds at most one
\* Result with is_main_result = true, whatever frames the stream delivered.
C16_AtMostOneMainResult ==
    rc_pc = "returned" => Len(MainResults(execution.results)) <= 1

\* C16 amended: the results of a returned Execution are the result frames of
\* the stream, in order and with their is_main_result flags unchanged; so it
\* holds at most one main result when the stream delivered at most one
\* result frame flagged main.
C16_ResultsAreTheResultFrames ==
    rc_pc = "returned" =>
        LET sent == FramesOf({"result"}, Len(emitted))
        IN  /\ execution.results = sent
            /\ Len(MainResults(sent)) <= 1 =>
                   Len(MainResults(execution.results)) <= 1

\* C16 witness: a returned run whose stream had a main result and a result
\* that is not the main one.
C16_Witness ==
    /\ rc_pc = "returned"
    /\ Len(execution.results) = 2
    /\ Len(MainResults(execution.results)) = 1

(***************************************************************************)
(* ------------------------------ WatchHandle ---------------------------- *)
(***************************************************************************)
\* The event types the sandbox can report; UNSPECIFIED stands for a type the
\* SDK does not know.
EventTypes == {"CREATE", "WRITE", "UNSPECIFIED"}

\* map_event_type: the SDK's type of a server event type, None when unknown
map_event_type(t) == IF t \in {"CREATE", "WRITE"} THEN t ELSE None

\* What a unary RPC on the watcher can come back with: the server's answer,
\* or a failure of the request on its way there or back.
RpcOutcomes == {"answered", "lost_request", "lost_response"}

\* WatchHandle.stop with self._closed = True also set when the RPC failed
stop_always(self_closed, rpc_ok) ==
    [closed |-> TRUE, outcome |-> IF rpc_ok THEN "ok" ELSE "RpcError"]

\* WatchHandle.stop: remove_watcher, and only when it did not raise,
\* self._closed = True
stop(self_closed, rpc_ok) ==
    IF rpc_ok
    THEN [closed |-> TRUE, outcome |-> "ok"]
    ELSE [closed |-> self_closed, outcome |-> "RpcError"]

\* WatchHandle.get_new_events without the test of self._closed
get_new_events_unguarded(self_closed, rpc_ok, events) ==
    IF ~rpc_ok
    THEN [sent |-> TRUE, outcome |-> "RpcError", events |-> <<>>]
    ELSE [sent |-> TRUE, outcome |-> "ok",
          events |-> SelectSeq([i \in 1..Len(events) |-> map_event_type(events[i])],
                               LAMBDA t : t # None)]

\* WatchHandle.get_new_events: raise when closed, else get_watcher_events and
\* keep the events whose type is known
get_new_events(self_closed, rpc_ok, events) ==
    IF self_closed
    THEN [sent |-> FALSE, outcome |-> "SandboxException", events |-> <<>>]
    ELSE IF ~rpc_ok
    THEN [sent |-> TRUE, outcome |-> "RpcError", events |-> <<>>]
    ELSE [sent |-> TRUE, outcome |-> "ok",
          events |-> SelectSeq([i \in 1..Len(events) |-> map_event_type(events[i])],
                               LAMBDA t : t # None)]

WatchInit ==
    /\ w_closed = FALSE
    /\ w_watcher = TRUE
    /\ w_buffer = <<>>
    /\ w_stopCalled = FALSE
    /\ w_stopped = FALSE
    /\ w_polls = 0
    /\ w_last = [op |-> None]

\* Something changes in the watched directory.
FsEvent(t) ==
    /\ w_watcher
    /\ Len(w_buffer) < MaxEvents
    /\ w_buffer' = Append(w_buffer, t)
    /\ UNCHANGED <<w_closed, w_watcher, w_stopCalled, w_stopped, w_polls, w_last>>
    /\ UNCHANGED notWatchVars

\* handle.stop(). The RPC succeeds when the request arrives, the sandbox
\* holds the watcher and the answer comes back.
WatchStop(net) ==
    LET reached == net # "lost_request"
        rpc_ok == net = "answered" /\ w_watcher
        r == stop(w_closed, rpc_ok)
    IN /\ w_closed' = r.closed
       /\ w_watcher' = (w_watcher /\ ~reached)
       /\ w_buffer' = IF reached THEN <<>> ELSE w_buffer
       /\ w_stopCalled' = TRUE
       /\ w_stopped' = (w_stopped \/ r.outcome = "ok")
       /\ w_last' = [op |-> "stop", outcome |-> r.outcome]
       /\ UNCHANGED w_polls
       /\ UNCHANGED notWatchVars

\* handle.get_new_events(). The sandbox hands out its buffer and empties it.
WatchGetNewEvents(net) ==
    LET rpc_ok == net = "answered" /\ w_watcher
        r == get_new_events(w_closed, rpc_ok, w_buffer)
        reached == r.sent /\ net # "lost_request"
    IN /\ w_stopped => w_polls < MaxPolls
       /\ w_buffer' = IF reached THEN <<>> ELSE w_buffer
       /\ w_polls' = IF w_stopped THEN w_polls + 1 ELSE w_polls
       /\ w_last' = [op |-> "get_new_events", outcome |-> r.outcome,
                     events |-> r.events, sent |-> r.sent,
                     afterStopCall |-> w_stopCalled,
                     afterStop |-> w_stopped]
       /\ UNCHANGED <<w_closed, w_watcher, w_stopCalled, w_stopped>>
       /\ UNCHANGED notWatchVars

REQUEST_TIMEOUT == 30

\* The health gate of Sandbox.create counts time in tenths of a second here:
\* timeout = 5.0 and interval = 0.3
GateTimeout == 50

GateInterval == 3

\* A Python float argument that may be None: <<>> is None, <<x>> is x
NoTimeout == <<>>

\* Truth value of an optional number (None and 0 are falsy)
TruthyNum(x) == x # <<>> /\ x[1] # 0

\* Truth value of an optional string or of an optional bool
Truthy(x) == x \notin {None, "False", ""}

\* A keyword argument, or the default of the parameter when it is not passed
Arg(kw, k, default) == IF k \in DOMAIN kw THEN kw[k] ELSE default

\* The environment of the process: no SBX_* variable is set
Env == [SBX_DOMAIN |-> None, SBX_DEBUG |-> "false", SBX_API_KEY |-> None,
        SBX_ACCESS_TOKEN |-> None, SBX_DEBUG_HOST |-> None]

\* str.lower of the values SBX_DEBUG takes in the model
lower(text) == IF text \in {"True", "TRUE"} THEN "true" ELSE text

\* ConnectionConfig._debug: os.getenv("SBX_DEBUG", "false").lower() == "true"
_debug(env) ==
    lower(IF env.SBX_DEBUG = None THEN "false" ELSE env.SBX_DEBUG) = "true"

\* ConnectionConfig.__init__ called in the environment env with the keyword
\* arguments kw; the value is the __dict__ of the new object.
ConnectionConfig_init(env, kw) ==
    LET domain == IF Truthy(Arg(kw, "domain", None)) THEN kw["domain"]
                  ELSE IF Truthy(env.SBX_DOMAIN) THEN env.SBX_DOMAIN
                  ELSE "api.scalebox.dev/v1"
        request_timeout == Arg(kw, "request_timeout", NoTimeout)
    IN  [ domain |-> domain,
          debug |-> IF Truthy(Arg(kw, "debug", None)) THEN kw["debug"]
                    ELSE IF _debug(env) THEN "True" ELSE "False",
          api_key |-> IF Truthy(Arg(kw, "api_key", None)) THEN kw["api_key"]
                      ELSE env.SBX_API_KEY,
          access_token |-> IF Truthy(Arg(kw, "access_token", None))
                           THEN kw["access_token"] ELSE env.SBX_ACCESS_TOKEN,
          debug_host |-> IF Truthy(Arg(kw, "debug_host", None))
                         THEN kw["debug_host"]
                         ELSE IF Truthy(env.SBX_DEBUG_HOST) THEN env.SBX_DEBUG_HOST
                         ELSE "localhost",
          headers |-> Arg(kw, "headers", {}),
          proxy |-> Arg(kw, "proxy", None),
          request_timeout |-> IF request_timeout = <<0>> THEN NoTimeout
                              ELSE IF request_timeout # NoTimeout THEN request_timeout
                              ELSE <<REQUEST_TIMEOUT>>,
          api_url |-> "https://" \o domain ]

\* ConnectionConfig.__init__ in the environment Env
ConnectionConfig(kw) == ConnectionConfig_init(Env, kw)

\* The keyword parameters the SandboxApi._cls_* class methods declare, apart
\* from sandbox_id and the arguments of the operation itself
ClsParams == {"api_key", "domain", "debug", "request_timeout", "headers", "proxy"}

\* How a call ends: whether a request went out, the value returned, or the
\* exception raised
Outcome(sent, ret, exc) == [sent |-> sent, ret |-> ret, exc |-> exc]

\* The exception handle_api_exception(res) builds from an answer of 300 or
\* above
ApiException == "handle_api_exception(res)"

\* What the management API answers to a request about one sandbox, by whether
\* it still has the sandbox: ok is the status of success
ApiAnswers(ok, alive) == IF alive THEN {ok, 500} ELSE {404, 500}

\* What the management API answers to POST /sandboxes
PostAnswers == {201, 500}

\* _cls_kill without the 404 case: a 404 is raised like every other status
\* of 300 or above
_cls_kill_raises404(kw, status) ==
    IF ~(DOMAIN kw \subseteq ClsParams) THEN Outcome(FALSE, None, "TypeError")
    ELSE IF ConnectionConfig(kw).debug = "True" THEN Outcome(FALSE, "True", None)
    ELSE IF status >= 300 THEN Outcome(TRUE, None, ApiException)
    ELSE Outcome(TRUE, "True", None)

\* SandboxApi._cls_kill(sandbox_id, **kw) when the server answers the DELETE
\* with status
_cls_kill(kw, status) ==
    IF ~(DOMAIN kw \subseteq ClsParams) THEN Outcome(FALSE, None, "TypeError")
    ELSE IF ConnectionConfig(kw).debug = "True" THEN Outcome(FALSE, "True", None)
    ELSE IF status = 404 THEN Outcome(TRUE, "False", None)
    ELSE IF status >= 300 THEN Outcome(TRUE, None, ApiException)
    ELSE Outcome(TRUE, "True", None)

\* SandboxApi._cls_set_timeout(sandbox_id, timeout, **kw)
_cls_set_timeout(kw, status) ==
    IF ~(DOMAIN kw \subseteq ClsParams) THEN Outcome(FALSE, None, "TypeError")
    ELSE IF ConnectionConfig(kw).debug = "True" THEN Outcome(FALSE, None, None)
    ELSE IF status >= 300 THEN Outcome(TRUE, None, ApiException)
    ELSE Outcome(TRUE, None, None)

\* SandboxApi._cls_get_info(sandbox_id, **kw)
_cls_get_info(kw, status) ==
    IF ~(DOMAIN kw \subseteq ClsParams) THEN Outcome(FALSE, None, "TypeError")
    ELSE IF status >= 300 THEN Outcome(TRUE, None, ApiException)
    ELSE Outcome(TRUE, "SandboxInfo", None)

\* SandboxApi._cls_get_metrics(sandbox_id, start, end, **kw)
_cls_get_metrics(kw, status) ==
    IF ~(DOMAIN kw \subseteq ClsParams) THEN Outcome(FALSE, None, "TypeError")
    ELSE IF ConnectionConfig(kw).debug = "True" THEN Outcome(FALSE, "[]", None)
    ELSE IF status >= 300 THEN Outcome(TRUE, None, ApiException)
    ELSE Outcome(TRUE, "metrics", None)

\* SandboxApi._create_sandbox(**kw)
_create_sandbox(kw, status) ==
    IF status >= 300 THEN Outcome(TRUE, None, ApiException)
    ELSE Outcome(TRUE, "SandboxCreateResponse", None)

\* What GET /health can do: answer with a status, time out, or fail to connect
HealthReplies == {"200", "502", "500", "timeout", "refused"}

\* Sandbox.is_running for one reply to GET /health
is_running(reply) ==
    IF reply = "timeout" THEN Outcome(TRUE, None, "TimeoutException")
    ELSE IF reply = "refused" THEN Outcome(TRUE, None, "ConnectError")
    ELSE IF reply = "502" THEN Outcome(TRUE, "False", None)
    ELSE IF reply # "200" THEN Outcome(TRUE, None, "format_envd_api_exception")
    ELSE Outcome(TRUE, "True", None)

\* A gate whose loop test looks at the elapsed time before the sleep
health_gate_late(elapsed, sandbox_domain, reply) ==
    LET r == is_running(reply)
        slept == elapsed + GateInterval
    IN  IF r.exc = None /\ r.ret = "True"
        THEN [pc |-> "returned", elapsed |-> elapsed, exc |-> None]
        ELSE IF elapsed <= GateTimeout
        THEN [pc |-> "gate", elapsed |-> slept, exc |-> None]
        ELSE IF sandbox_domain = None
        THEN [pc |-> "raised", elapsed |-> slept, exc |-> "TypeError"]
        ELSE [pc |-> "returned", elapsed |-> slept, exc |-> None]

\* One turn of the health gate's while loop for one reply, from the probe to
\* the loop test, with the else branch of the loop when the test fails.
\* "connect " + sandbox_domain raises TypeError when sandbox_domain is None.
health_gate(elapsed, sandbox_domain, reply) ==
    LET r == is_running(reply)
        slept == elapsed + GateInterval
    IN  IF r.exc = None /\ r.ret = "True"
        THEN [pc |-> "returned", elapsed |-> elapsed, exc |-> None]
        ELSE IF slept <= GateTimeout
        THEN [pc |-> "gate", elapsed |-> slept, exc |-> None]
        ELSE IF sandbox_domain = None
        THEN [pc |-> "raised", elapsed |-> slept, exc |-> "TypeError"]
        ELSE [pc |-> "returned", elapsed |-> slept, exc |-> None]

\* The handle's ConnectionConfig as create and connect build it
HandleConfig(debug, request_timeout) ==
    ConnectionConfig([api_key |-> "key", domain |-> None, debug |-> debug,
                      request_timeout |-> request_timeout,
                      headers |-> {"Authorization", "X-Access-Token"},
                      proxy |-> None])

\* Sandbox.create up to the health gate. sandbox_id is None for a new
\* sandbox; status is the management API's answer when a request is sent.
Sandbox_create(debug, sandbox_id, request_timeout, status) ==
    LET r == IF sandbox_id # None
             THEN _cls_get_info([debug |-> debug, request_timeout |-> request_timeout],
                                status)
             ELSE _create_sandbox([debug |-> debug, request_timeout |-> request_timeout],
                                  status)
    IN  IF Truthy(debug)
        THEN [pc |-> "gate", exc |-> None, sent |-> FALSE, sandbox_domain |-> None,
              config |-> HandleConfig(debug, request_timeout)]
        ELSE IF r.exc # None
        THEN [pc |-> "raised", exc |-> r.exc, sent |-> TRUE, sandbox_domain |-> None,
              config |-> <<>>]
        ELSE [pc |-> "gate", exc |-> None, sent |-> TRUE, sandbox_domain |-> "sbx.dev",
              config |-> HandleConfig(debug, request_timeout)]

\* Sandbox.connect followed by the health gate of create
Sandbox_connect_gated(debug, status) ==
    LET r == _cls_get_info([debug |-> debug], status)
    IN  IF r.exc # None
        THEN [pc |-> "raised", exc |-> r.exc, sent |-> TRUE, sandbox_domain |-> None,
              config |-> <<>>]
        ELSE [pc |-> "gate", exc |-> None, sent |-> TRUE, sandbox_domain |-> "sbx.dev",
              config |-> HandleConfig(debug, NoTimeout)]

\* Sandbox.connect: getInfo, then the handle is built and returned
Sandbox_connect(debug, status) ==
    LET r == _cls_get_info([debug |-> debug], status)
    IN  IF r.exc # None
        THEN [pc |-> "raised", exc |-> r.exc, sent |-> TRUE, sandbox_domain |-> None,
              config |-> <<>>]
        ELSE [pc |-> "returned", exc |-> None, sent |-> TRUE, sandbox_domain |-> "sbx.dev",
              config |-> HandleConfig(debug, NoTimeout)]

\* The keyword arguments an instance method makes from the handle's config:
\* config_dict is connection_config.__dict__ itself, so what is done to it is
\* done to the handle's ConnectionConfig.
config_dict(config, request_timeout) ==
    LET popped == [k \in DOMAIN config \ {"access_token", "api_url"} |-> config[k]]
    IN  IF TruthyNum(request_timeout)
        THEN [popped EXCEPT !["request_timeout"] = request_timeout]
        ELSE popped

\* The instance kill(): forwards config_dict to _cls_kill and has no return
\* statement
Sandbox_kill(config, request_timeout, status) ==
    LET r == _cls_kill(config_dict(config, request_timeout), status)
    IN  IF r.exc # None THEN r ELSE Outcome(r.sent, None, None)

\* The instance set_timeout()
Sandbox_set_timeout(config, request_timeout, status) ==
    _cls_set_timeout(config_dict(config, request_timeout), status)

\* The instance get_info()
Sandbox_get_info(config, request_timeout, status) ==
    _cls_get_info(config_dict(config, request_timeout), status)

\* The instance get_metrics()
Sandbox_get_metrics(config, request_timeout, status) ==
    _cls_get_metrics(config_dict(config, request_timeout), status)

\* The record kept of a call on the sandbox machine
Call(op, form, debug, r, answer) ==
    [op |-> op, form |-> form, debug |-> debug, sent |-> r.sent,
     answer |-> answer, ret |-> r.ret, exc |-> r.exc]

NoCall == Call("none", "none", "False", Outcome(FALSE, None, None), 0)

\* Effective debug flag of a call made with the keyword argument debug
DebugOf(debug) == ConnectionConfig([debug |-> debug]).debug

SandboxInit ==
    /\ sb_pc = "idle"
    /\ sb_op = None
    /\ sb_exc = None
    /\ sb_domain = None
    /\ sb_alive = FALSE
    /\ sb_handle = FALSE
    /\ sb_config = <<>>
    /\ sb_config0 = <<>>
    /\ sb_elapsed = 0
    /\ sb_probes = 0
    /\ sb_last = NoCall
    /\ sb_prev = NoCall

\* Sandbox.create(debug=..., sandbox_id=..., request_timeout=...) up to the
\* health gate
Create(debug, sandbox_id, request_timeout, status) ==
    /\ sb_pc # "gate"
    /\ status \in (IF Truthy(debug) THEN {0}
                   ELSE IF sandbox_id # None THEN ApiAnswers(200, sb_alive)
                   ELSE PostAnswers)
    /\ LET c == Sandbox_create(debug, sandbox_id, request_timeout, status)
       IN  /\ sb_pc' = c.pc
           /\ sb_exc' = c.exc
           /\ sb_domain' = c.sandbox_domain
           /\ sb_config' = c.config
           /\ sb_config0' = c.config
           /\ sb_last' = Call("create", "static", DebugOf(debug),
                              Outcome(c.sent, None, c.exc), status)
    /\ sb_op' = "create"
    /\ sb_alive' = IF ~Truthy(debug) /\ sandbox_id = None /\ status = 201
                   THEN TRUE ELSE sb_alive
    /\ sb_handle' = FALSE
    /\ sb_elapsed' = 0
    /\ sb_probes' = 0
    /\ sb_prev' = sb_last
    /\ UNCHANGED notSandboxVars

\* One turn of the health gate: a probe, its reply, the sleep and the loop test
GateProbe(reply) ==
    /\ sb_pc = "gate"
    /\ LET g == health_gate(sb_elapsed, sb_domain, reply)
       IN  /\ sb_pc' = g.pc
           /\ sb_exc' = g.exc
           /\ sb_elapsed' = g.elapsed
           /\ sb_handle' = (g.pc = "returned")
    /\ sb_probes' = sb_probes + 1
    /\ UNCHANGED <<sb_op, sb_domain, sb_alive, sb_config, sb_config0, sb_last,
                   sb_prev>>
    /\ UNCHANGED notSandboxVars

\* Sandbox.connect(sandbox_id, debug=...)
Connect(debug, status) ==
    /\ sb_pc # "gate"
    /\ status \in ApiAnswers(200, sb_alive)
    /\ LET c == Sandbox_connect(debug, status)
       IN  /\ sb_pc' = c.pc
           /\ sb_exc' = c.exc
           /\ sb_domain' = c.sandbox_domain
           /\ sb_config' = c.config
           /\ sb_config0' = c.config
           /\ sb_handle' = (c.pc = "returned")
           /\ sb_last' = Call("connect", "static", DebugOf(debug),
                              Outcome(c.sent, None, c.exc), status)
    /\ sb_op' = "connect"
    /\ sb_elapsed' = 0
    /\ sb_probes' = 0
    /\ sb_prev' = sb_last
    /\ UNCHANGED sb_alive
    /\ UNCHANGED notSandboxVars

\* The static form Sandbox.kill(sandbox_id, debug=...)
StaticKill(debug, status) ==
    /\ sb_pc # "gate"
    /\ status \in ApiAnswers(204, sb_alive)
    /\ LET r == _cls_kill([api_key |-> "key", debug |-> debug], status)
       IN  /\ sb_last' = Call("kill", "static", DebugOf(debug), r, status)
           /\ sb_alive' = IF r.sent /\ status = 204 THEN FALSE ELSE sb_alive
    /\ sb_prev' = sb_last
    /\ UNCHANGED <<sb_pc, sb_op, sb_exc, sb_domain, sb_handle, sb_config,
                   sb_config0, sb_elapsed, sb_probes>>
    /\ UNCHANGED notSandboxVars

\* An instance method of the handle: sandbox.kill(request_timeout),
\* sandbox.set_timeout(t, request_timeout), sandbox.get_info(request_timeout)
\* or sandbox.get_metrics(request_timeout=...)
InstanceCall(op, request_timeout, status) ==
    /\ sb_handle
    /\ sb_pc # "gate"
    /\ status \in ApiAnswers(IF op = "kill" \/ op = "set_timeout" THEN 204 ELSE 200,
                             sb_alive)
    /\ LET r == CASE op = "kill" ->
                         Sandbox_kill(sb_config, request_timeout, status)
                  [] op = "set_timeout" ->
                         Sandbox_set_timeout(sb_config, request_timeout, status)
                  [] op = "get_info" ->
                         Sandbox_get_info(sb_config, request_timeout, status)
                  [] op = "get_metrics" ->
                         Sandbox_get_metrics(sb_config, request_timeout, status)
       IN  /\ sb_last' = Call(op, "instance", sb_config.debug, r, status)
           /\ sb_alive' = IF op = "kill" /\ r.sent /\ status = 204
                          THEN FALSE ELSE sb_alive
    /\ sb_config' = config_dict(sb_config, request_timeout)
    /\ sb_prev' = sb_last
    /\ UNCHANGED <<sb_pc, sb_op, sb_exc, sb_domain, sb_handle, sb_config0,
                   sb_elapsed, sb_probes>>
    /\ UNCHANGED notSandboxVars

\* The instance methods that forward the handle's config
InstanceOps == {"kill", "set_timeout", "get_info", "get_metrics"}

\* C5: the health gate is advisory: once Sandbox.create has built the handle
\* and entered the gate it always returns the handle, whatever the /health
\* sb_probes do, in debug mode as in production; a health failure never makes
\* create raise.
C5_CreateNeverRaisesInGate ==
    (sb_op = "create" /\ sb_probes > 0) => sb_pc # "raised"

\* C5 reachable case: create in debug mode has used up the gate's five seconds
\* without one successful probe.
C5_Witness ==
    /\ sb_op = "create"
    /\ sb_last.debug = "True"
    /\ sb_elapsed > GateTimeout
    /\ sb_pc # "gate"

\* C28: the health gate of Sandbox.create issues at most 17 probes; while it
\* is running every probe so far has failed and was followed by one sleep,
\* and when a probe reported the sandbox running that probe was the last.
C28_GateBoundedStopsAtSuccess ==
    sb_op = "create" =>
        /\ sb_probes <= 17
        /\ sb_pc = "gate" => sb_probes * GateInterval = sb_elapsed
        /\ (sb_pc = "returned" /\ sb_probes > 0 /\ sb_elapsed <= GateTimeout) =>
               (sb_probes - 1) * GateInterval = sb_elapsed

\* C28 reachable case: the gate gave up after 17 probes, none of which
\* reported the sandbox running.
C28_Witness ==
    /\ sb_op = "create"
    /\ sb_pc = "returned"
    /\ sb_probes = 17
    /\ sb_elapsed > GateTimeout

\* C6 as stated: Sandbox.connect returns no handle before at least one health
\* probe has been issued.
C6_ConnectProbesHealth ==
    (sb_op = "connect" /\ sb_pc = "returned") => sb_probes >= 1

\* C6 amended: Sandbox.create returns its handle only after at least one
\* health probe, while Sandbox.connect returns the handle assembled from
\* getInfo without issuing any health probe.
C6_OnlyCreateIsGated ==
    /\ (sb_op = "create" /\ sb_pc = "returned") => sb_probes >= 1
    /\ (sb_op = "connect" /\ sb_pc = "returned") => sb_probes = 0

\* C6 witness: connect has returned a handle.
C6_Witness ==
    /\ sb_op = "connect"
    /\ sb_pc = "returned"
    /\ sb_handle
    /\ sb_last.answer = 200

\* C7 as stated: killing the same sandbox twice in a row with the static
\* form, the first call having returned true and the server not failing on
\* the second, the second call returns false and does not raise.
C7_SecondKillReturnsFalse ==
    ( /\ sb_prev.op = "kill" /\ sb_prev.form = "static"
      /\ sb_prev.ret = "True"
      /\ sb_last.op = "kill" /\ sb_last.form = "static"
      /\ sb_last.answer # 500 )
    => (sb_last.ret = "False" /\ sb_last.exc = None)

\* C7 amended: outside debug mode the management kill sends the DELETE and
\* returns true on success, false on 404, and raises on any other status of
\* 300 or above; so after a kill that deleted the sandbox the next kill
\* returns false unless the server answers it with another status of 300 or
\* above. In debug mode kill sends no request and returns true every time.
C7_KillOutcome ==
    (sb_last.op = "kill" /\ sb_last.form = "static") =>
        /\ sb_last.debug = "True" =>
               (~sb_last.sent /\ sb_last.ret = "True" /\ sb_last.exc = None)
        /\ sb_last.debug = "False" =>
               /\ sb_last.sent
               /\ sb_last.answer < 300 =>
                      (sb_last.ret = "True" /\ sb_last.exc = None)
               /\ sb_last.answer = 404 =>
                      (sb_last.ret = "False" /\ sb_last.exc = None)
               /\ (sb_last.answer >= 300 /\ sb_last.answer # 404) =>
                      (sb_last.ret = None /\ sb_last.exc # None)
               /\ ( /\ sb_prev.op = "kill" /\ sb_prev.form = "static"
                    /\ sb_prev.sent /\ sb_prev.ret = "True" )
                  => \/ sb_last.ret = "False" /\ sb_last.exc = None
                     \/ sb_last.answer >= 300 /\ sb_last.answer # 404
                        /\ sb_last.exc # None

\* C7 witness: a kill that deleted the sandbox is followed by a kill that the
\* server answers with 404.
C7_Witness ==
    /\ sb_prev.op = "kill" /\ sb_prev.form = "static"
    /\ sb_prev.sent /\ sb_prev.ret = "True"
    /\ sb_last.op = "kill" /\ sb_last.form = "static"
    /\ sb_last.answer = 404 /\ sb_last.ret = "False"

\* C8: the instance form sandbox.kill() ends as the static form
\* Sandbox.kill(sandbox_id) ends for the same server answer: True when the
\* sandbox was killed, False when it was not found.
C8_InstanceKillLikeStatic ==
    (sb_last.op = "kill" /\ sb_last.form = "instance") =>
        LET s == _cls_kill([api_key |-> "key", debug |-> sb_last.debug],
                           sb_last.answer)
        IN  sb_last.ret = s.ret /\ sb_last.exc = s.exc

\* C8 reachable case: the instance kill has been called on a live sandbox.
C8_Witness ==
    /\ sb_last.op = "kill" /\ sb_last.form = "instance"
    /\ sb_last.answer = 204

\* C9: a handle's ConnectionConfig keeps every field it had when the handle
\* was built, across kill, set_timeout, get_info and get_metrics calls with
\* or without a per-call request_timeout.
C9_ConfigImmutable ==
    sb_handle => sb_config = sb_config0

\* C9 reachable case: an instance method has been called with a per-call
\* request_timeout.
C9_Witness ==
    /\ sb_handle
    /\ sb_last.form = "instance"
    /\ sb_config.request_timeout = <<1>>

(***************************************************************************)
(* ------------------------- process start handshake --------------------- *)
(***************************************************************************)
\* The members of the oneof ProcessEvent.event
ProcessEventKinds == {"start", "data", "end", "keepalive"}

\* The frames of a Start or Connect stream: a StartResponse whose event field
\* is unset (event is "none"), or set to a ProcessEvent with one member of
\* the oneof. Only a start event carries a pid.
StartFrames ==
    {[event |-> "none", pid |-> 0]}
    \cup {[event |-> "start", pid |-> p] : p \in {1, 2}}
    \cup {[event |-> k, pid |-> 0] : k \in ProcessEventKinds \ {"start"}}

\* start_event.HasField("event")
HasField_event(start_event) == start_event.event # "none"

\* start_event.event.start.pid: reading a oneof member that is not the one
\* set gives the default message, whose pid is 0
event_start_pid(start_event) ==
    IF start_event.event = "start" THEN start_event.pid ELSE 0

\* The body of the try block of Commands._start and Commands.connect after
\* the first frame has been read; the except clause hands what is raised to
\* handle_rpc_exception
handshake(start_event) ==
    IF ~HasField_event(start_event)
    THEN [pc |-> "raised", pid |-> <<>>,
          exc |-> "handle_rpc_exception(SandboxException)"]
    ELSE [pc |-> "returned", pid |-> <<event_start_pid(start_event)>>,
          exc |-> None]

StartInit ==
    /\ st_pc = "idle"
    /\ st_op = None
    /\ st_facade = None
    /\ st_frames = <<>>
    /\ st_ended = FALSE
    /\ st_read = 0
    /\ st_pid = <<>>
    /\ st_exc = None

\* commands.run / _start or commands.connect is called: the request is sent
\* and the call waits for the first frame
StartCall(op, facade) ==
    /\ st_pc = "idle"
    /\ st_pc' = "waiting"
    /\ st_op' = op
    /\ st_facade' = facade
    /\ UNCHANGED <<st_frames, st_ended, st_read, st_pid, st_exc>>
    /\ UNCHANGED notStartVars

\* The agent writes one more frame to the stream
AgentSend(frame) ==
    /\ st_pc # "idle"
    /\ ~st_ended
    /\ Len(st_frames) < MaxStartFrames
    /\ st_frames' = Append(st_frames, frame)
    /\ UNCHANGED <<st_pc, st_op, st_facade, st_ended, st_read, st_pid, st_exc>>
    /\ UNCHANGED notStartVars

\* The agent ends the stream
AgentEnd ==
    /\ st_pc # "idle"
    /\ ~st_ended
    /\ st_ended' = TRUE
    /\ UNCHANGED <<st_pc, st_op, st_facade, st_frames, st_read, st_pid, st_exc>>
    /\ UNCHANGED notStartVars

\* events.__next__() returns the first frame and the call ends on it
Handshake ==
    /\ st_pc = "waiting"
    /\ st_read < Len(st_frames)
    /\ LET h == handshake(st_frames[st_read + 1])
       IN  /\ st_pc' = h.pc
           /\ st_pid' = h.pid
           /\ st_exc' = h.exc
    /\ st_read' = st_read + 1
    /\ UNCHANGED <<st_op, st_facade, st_frames, st_ended>>
    /\ UNCHANGED notStartVars

\* events.__next__() finds the stream ended with no frame: StopIteration
\* (StopAsyncIteration in the async facade) goes to handle_rpc_exception
HandshakeNoFrame ==
    /\ st_pc = "waiting"
    /\ st_read = Len(st_frames)
    /\ st_ended
    /\ st_pc' = "raised"
    /\ st_exc' = IF st_facade = "sync" THEN "handle_rpc_exception(StopIteration)"
                 ELSE "handle_rpc_exception(StopAsyncIteration)"
    /\ UNCHANGED <<st_op, st_facade, st_frames, st_ended, st_read, st_pid>>
    /\ UNCHANGED notStartVars

\* C10: _start and connect read exactly one frame before they return a
\* handle, return one only when that first frame is a start event, and the
\* handle's pid is the pid that start event carries.
C10_HandleOnlyFromStartEvent ==
    st_pc = "returned" =>
        /\ st_read = 1
        /\ st_frames[1].event = "start"
        /\ st_pid = <<st_frames[1].pid>>

\* C10 reachable case: the first frame read was not a start event.
C10_Witness ==
    /\ st_pc # "waiting"
    /\ st_read = 1
    /\ st_frames[1].event \in {"data", "end"}

(***************************************************************************)
(* ------------------------- commands: run and kill ---------------------- *)
(***************************************************************************)
Pids == {1, 2}

Facades == {"sync", "async"}

\* The reply of the agent to SendSignal reaches the SDK as a normal return
\* (code "ok") or as an exception with a status code and a text, str(e)
SignalOk == [code |-> "ok", text |-> ""]

\* Failures other than the agent's own "not found": the connection drops, or
\* a gateway in front of the agent answers the path with a plain 404 page
SignalFailures ==
    {[code |-> "unavailable", text |-> "connection reset"],
     [code |-> "unimplemented", text |-> "404 page not found"]}

\* What a kill of pid can come back with, by whether the agent runs pid
SignalReplies(running, pid) ==
    (IF pid \in running THEN {SignalOk}
     ELSE {[code |-> "not_found", text |-> "process not found"]})
    \cup SignalFailures

\* "not found" in str(e)
MentionsNotFound(text) == text \in {"process not found", "404 page not found"}

\* Commands.kill of the sync and of the async facade, for one reply
Commands_kill(reply) ==
    IF reply.code = "ok" THEN Outcome(TRUE, "True", None)
    ELSE IF MentionsNotFound(reply.text) THEN Outcome(TRUE, "False", None)
    ELSE Outcome(TRUE, None, "handle_rpc_exception(e)")

\* Pty.kill of the async facade, for one reply
Pty_kill(reply) ==
    IF reply.code = "ok" THEN Outcome(TRUE, "True", None)
    ELSE IF reply.code = "not_found" THEN Outcome(TRUE, "False", None)
    ELSE Outcome(TRUE, None, "handle_rpc_exception(e)")

\* The StartRequest commands.run sends, and what it returns once the start
\* handshake is through: the handle, or the result of waiting on the handle
Commands_run(facade, cmd, cwd, background) ==
    LET sent == IF facade = "sync" /\ background THEN cmd \o " &" ELSE cmd
    IN  [request |-> [cmd |-> "/bin/bash", args |-> <<"-l", "-c", sent>>,
                      cwd |-> cwd],
         returns |-> IF background THEN "handle" ELSE "result"]

CommandsInit ==
    /\ cm_running = {}
    /\ cm_input = [f \in Facades |-> <<>>]
    /\ cm_request = [f \in Facades |-> <<>>]
    /\ cm_result = [f \in Facades |-> None]
    /\ cm_last = [cls |-> None, pid |-> 0, reply |-> SignalOk,
                  ret |-> None, exc |-> None, running |-> FALSE]

\* commands.run(cmd, background, cwd=cwd): the agent starts the shell as pid;
\* a foreground run returns when the process has ended
CommandsRun(facade, cmd, cwd, background, pid) ==
    /\ pid \notin cm_running
    /\ LET r == Commands_run(facade, cmd, cwd, background)
       IN  /\ cm_request' = [cm_request EXCEPT ![facade] = <<r.request>>]
           /\ cm_result' = [cm_result EXCEPT ![facade] = r.returns]
    /\ cm_input' = [cm_input EXCEPT
                       ![facade] = <<[cmd |-> cmd, cwd |-> cwd,
                                      background |-> background]>>]
    /\ cm_running' = IF background THEN cm_running \cup {pid} ELSE cm_running
    /\ UNCHANGED cm_last
    /\ UNCHANGED notCommandsVars

\* A process ends by itself
ProcessExit(pid) ==
    /\ pid \in cm_running
    /\ cm_running' = cm_running \ {pid}
    /\ UNCHANGED <<cm_input, cm_request, cm_result, cm_last>>
    /\ UNCHANGED notCommandsVars

\* commands.kill(pid) of either facade
CommandsKill(facade, pid, reply) ==
    /\ reply \in SignalReplies(cm_running, pid)
    /\ LET r == Commands_kill(reply)
       IN  cm_last' = [cls |-> "Commands", pid |-> pid, reply |-> reply,
                       ret |-> r.ret, exc |-> r.exc,
                       running |-> pid \in cm_running]
    /\ cm_running' = IF reply.code = "ok" THEN cm_running \ {pid} ELSE cm_running
    /\ UNCHANGED <<cm_input, cm_request, cm_result>>
    /\ UNCHANGED notCommandsVars

\* pty.kill(pid) of the async facade
PtyKill(pid, reply) ==
    /\ reply \in SignalReplies(cm_running, pid)
    /\ LET r == Pty_kill(reply)
       IN  cm_last' = [cls |-> "Pty", pid |-> pid, reply |-> reply,
                       ret |-> r.ret, exc |-> r.exc,
                       running |-> pid \in cm_running]
    /\ cm_running' = IF reply.code = "ok" THEN cm_running \ {pid} ELSE cm_running
    /\ UNCHANGED <<cm_input, cm_request, cm_result>>
    /\ UNCHANGED notCommandsVars

\* C11: kill(pid) returns true when the signal was sent, returns false
\* exactly when the server reports the process as not found, and raises on
\* every other failure.
C11_FalseExactlyOnNotFound ==
    cm_last.cls # None =>
        /\ (cm_last.ret = "True") <=> (cm_last.reply.code = "ok")
        /\ (cm_last.ret = "False") <=> (cm_last.reply.code = "not_found")

\* C11 reachable case: a kill of a pid the agent does not run was answered
\* with "not found" and returned false.
C11_Witness ==
    /\ cm_last.cls = "Commands"
    /\ ~cm_last.running
    /\ cm_last.reply.code = "not_found"
    /\ cm_last.ret = "False"

\* C12: for the same cmd, cwd and background flag the sync and the async
\* commands.run send the same StartRequest and return the same kind of
\* value.
C12_SameStartRequest ==
    (cm_input["sync"] # <<>> /\ cm_input["sync"] = cm_input["async"]) =>
        /\ cm_request["sync"] = cm_request["async"]
        /\ cm_result["sync"] = cm_result["async"]

\* C12 reachable case: both facades have run the same command in the
\* background.
C12_Witness ==
    /\ cm_input["sync"] # <<>>
    /\ cm_input["sync"] = cm_input["async"]
    /\ cm_input["sync"][1].background

(***************************************************************************)
(* ------------------------- code contexts ------------------------------- *)
(***************************************************************************)
\* A Context object the caller holds
Context(context_id, language, cwd) ==
    [id |-> context_id, language |-> language, cwd |-> cwd]

\* Context.from_json of the id, language and cwd of a response
Context_from_json(data) == Context(data.id, data.language, data.cwd)

\* A reply of the ContextService as the generated client hands it on: the
\* response message (code "ok") or the error it raises
ContextOk(id, language, cwd) ==
    [code |-> "ok", id |-> id, language |-> language, cwd |-> cwd]

ContextError(code) == [code |-> code, id |-> 0, language |-> "", cwd |-> ""]

ContextFailures == {ContextError("unavailable"), ContextError("internal")}

\* How a context call ends: ret is <<>> for None, else <<the value returned>>
Ended(sent, ret, exc) == [sent |-> sent, ret |-> ret, exc |-> exc]

\* The argument check at the head of run_code; a Context object is truthy,
\* a language is truthy unless it is None or ""
run_code_check(facade, language, context) ==
    IF Truthy(language) /\ context # <<>>
    THEN Ended(FALSE, <<>>,
               IF facade = "sync" THEN "InvalidArgumentException" ELSE "Exception")
    ELSE Ended(TRUE, <<>>, None)

\* create_code_context for one reply. The sync method passes
\* extra_headers=headers, a name that is bound nowhere: evaluating the
\* arguments raises NameError before the call, and the except clause
\* re-raises it as it does not mention a timeout.
create_code_context(facade, cwd, language, reply) ==
    IF facade = "sync" THEN Ended(FALSE, <<>>, "NameError")
    ELSE IF reply.code # "ok" THEN Ended(TRUE, <<>>, reply.code)
    ELSE Ended(TRUE, <<Context_from_json(reply)>>, None)

\* destroy_context that lets the error of the reply through
destroy_context_raises(facade, context, reply) ==
    IF reply.code # "ok" THEN Ended(TRUE, <<>>, reply.code)
    ELSE Ended(TRUE, <<>>, None)

\* destroy_context for one reply: the generated client raises the error of
\* the reply inside the try block, and the except clause logs it as a warning
destroy_context(facade, context, reply) ==
    LET raised == IF reply.code # "ok" THEN reply.code ELSE None
        caught == raised # None
    IN  IF caught THEN Ended(TRUE, <<>>, None)
        ELSE Ended(TRUE, <<>>, raised)

\* The record kept of a context call
CxCall(op, facade, arg, reply, r) ==
    [op |-> op, facade |-> facade, arg |-> arg, reply |-> reply,
     sent |-> r.sent, ret |-> r.ret, exc |-> r.exc]

CxNoCall == CxCall("none", "none", <<>>, ContextError("none"), Ended(FALSE, <<>>, None))

ContextInit ==
    /\ cx_contexts = {}
    /\ cx_issued = 0
    /\ cx_last = CxNoCall
    /\ cx_prev = CxNoCall

\* run_code(code, language=language, context=context) up to the Execute
\* request; context is <<>> for None or <<id>> for a Context with that id
RunCodeCheck(facade, language, context) ==
    /\ cx_last' = CxCall("run_code", facade,
                         <<[language |-> language, context |-> context]>>,
                         ContextError("none"),
                         run_code_check(facade, language, context))
    /\ cx_prev' = cx_last
    /\ UNCHANGED <<cx_contexts, cx_issued>>
    /\ UNCHANGED notContextVars

\* create_code_context(cwd, language): reply is what the sandbox answers to
\* the CreateContext request of this call
CreateCodeContext(facade, cwd, language, reply) ==
    /\ cx_issued < MaxContexts
    /\ reply \in {ContextOk(cx_issued + 1,
                            IF Truthy(language) THEN language ELSE "python",
                            IF Truthy(cwd) THEN cwd ELSE "/home/user")}
                 \cup ContextFailures
    /\ LET r == create_code_context(facade, cwd, language, reply)
           made == r.sent /\ reply.code = "ok"
       IN  /\ cx_last' = CxCall("create", facade,
                                <<[language |-> language, cwd |-> cwd]>>, reply, r)
           /\ cx_contexts' = IF made THEN cx_contexts \cup {reply.id}
                             ELSE cx_contexts
           /\ cx_issued' = IF made THEN cx_issued + 1 ELSE cx_issued
    /\ cx_prev' = cx_last
    /\ UNCHANGED notContextVars

\* destroy_context(context) for a context with an id the sandbox has issued
DestroyContext(facade, id, reply) ==
    /\ id \in 1..cx_issued
    /\ reply \in (IF id \in cx_contexts THEN {ContextOk(id, "", "")}
                  ELSE {ContextError("not_found")}) \cup ContextFailures
    /\ LET r == destroy_context(facade, id, reply)
       IN  /\ cx_last' = CxCall("destroy", facade, <<id>>, reply, r)
           /\ cx_contexts' = IF r.sent /\ reply.code = "ok"
                             THEN cx_contexts \ {id} ELSE cx_contexts
    /\ cx_prev' = cx_last
    /\ UNCHANGED cx_issued
    /\ UNCHANGED notContextVars

\* C13: run_code called with both language and context fails with the
\* InvalidArgument error, in both facades, before any request is sent.
C13_BothSetIsInvalidArgument ==
    ( /\ cx_last.op = "run_code"
      /\ Truthy(cx_last.arg[1].language)
      /\ cx_last.arg[1].context # <<>> )
    => (cx_last.exc = "InvalidArgumentException" /\ ~cx_last.sent)

\* C13 reachable case: the sync run_code has refused language with context.
C13_Witness ==
    /\ cx_last.op = "run_code"
    /\ cx_last.facade = "sync"
    /\ cx_last.exc = "InvalidArgumentException"

\* C14: when the server accepts the CreateContext request,
\* create_code_context returns a Context with the id, language and cwd of
\* the server's response, in the sync and in the async facade.
C14_ContextFromResponse ==
    (cx_last.op = "create" /\ cx_last.reply.code = "ok") =>
        /\ cx_last.exc = None
        /\ cx_last.ret = <<Context(cx_last.reply.id, cx_last.reply.language,
                                   cx_last.reply.cwd)>>

\* C14 reachable case: the async create_code_context has returned the
\* context of the response.
C14_Witness ==
    /\ cx_last.op = "create"
    /\ cx_last.facade = "async"
    /\ cx_last.ret # <<>>
    /\ cx_last.ret[1].id = cx_last.reply.id

\* C15: destroy_context never raises, whatever the server answers, so
\* destroying the same context twice in a row completes normally both times.
C15_DestroyNeverRaises ==
    /\ cx_last.op = "destroy" => (cx_last.exc = None /\ cx_last.ret = <<>>)
    /\ ( /\ cx_prev.op = "destroy" /\ cx_last.op = "destroy"
         /\ cx_prev.arg = cx_last.arg )
       => (cx_prev.exc = None /\ cx_last.exc = None)

\* C15 witness: the same context was destroyed twice in a row and the second
\* call, answered with an error, returned normally.
C15_Witness ==
    /\ cx_prev.op = "destroy" /\ cx_last.op = "destroy"
    /\ cx_prev.arg = cx_last.arg
    /\ cx_prev.reply.code = "ok"
    /\ cx_last.reply.code = "not_found"
    /\ cx_last.exc = None

(***************************************************************************)
(* ----------------------- files: the filesystem driver ------------------ *)
(***************************************************************************)
\* A path is the sequence of its characters
FilePaths == {<<"/", "a">>, <<"/", "a", "?", "v">>}

\* str.encode('utf-8') of one code point
encode_char(cp) ==
    IF cp < 128 THEN <<cp>>
    ELSE IF cp < 2048 THEN <<192 + (cp \div 64), 128 + (cp % 64)>>
    ELSE <<224 + (cp \div 4096), 128 + ((cp \div 64) % 64), 128 + (cp % 64)>>

RECURSIVE encode_utf8(_)
\* str.encode('utf-8'): the bytes of a text given as its code points
encode_utf8(text) ==
    IF text = <<>> THEN <<>>
    ELSE encode_char(Head(text)) \o encode_utf8(Tail(text))

RECURSIVE decode_utf8(_)
\* r.text: the response body decoded as UTF-8, U+FFFD for a byte that does
\* not decode (sequences of up to two bytes)
decode_utf8(bytes) ==
    IF bytes = <<>> THEN <<>>
    ELSE LET b == Head(bytes)
         IN  IF b < 128 THEN <<b>> \o decode_utf8(Tail(bytes))
             ELSE IF /\ b >= 194 /\ b < 224 /\ Len(bytes) >= 2
                     /\ bytes[2] >= 128 /\ bytes[2] < 192
                  THEN <<(b - 192) * 64 + (bytes[2] - 128)>>
                       \o decode_utf8(Tail(Tail(bytes)))
             ELSE <<65533>> \o decode_utf8(Tail(bytes))

\* What write is given as data: a str, bytes, or a value of another type
FileData ==
    {[kind |-> "str", val |-> t] : t \in {<<>>, <<233>>}}
    \cup {[kind |-> "bytes", val |-> b] : b \in {<<>>, <<255>>}}
    \cup {[kind |-> "bytearray", val |-> <<0>>]}

\* The file_content write puts into the multipart body; <<>> when the type
\* of the data is not supported
file_content(data) ==
    IF data.kind = "str" THEN <<encode_utf8(data.val)>>
    ELSE IF data.kind = "bytes" THEN <<data.val>>
    ELSE <<>>

\* The exception handle_envd_api_exception makes of a response, None for 2xx
format_envd_api_exception(status_code) ==
    IF status_code >= 200 /\ status_code < 300 THEN None
    ELSE IF status_code = 400 THEN "InvalidArgumentException"
    ELSE IF status_code = 401 THEN "AuthenticationException"
    ELSE IF status_code = 404 THEN "NotFoundException"
    ELSE IF status_code = 502 THEN "sandbox_timeout_exception(message)"
    ELSE IF status_code = 507 THEN "NotEnoughSpaceException"
    ELSE "SandboxException"

\* The outcome of a call of the driver: the request it sent (<<>> when it
\* sent none), what it returned (<<>> when it raised) and the exception
Done(request, ret, exc) == [request |-> request, ret |-> ret, exc |-> exc]

\* Filesystem.write(path, data), for the status of the agent's answer
Filesystem_write(path, data, status) ==
    LET content == file_content(data)
        request == [route |-> "/upload", path |-> path, file |-> content[1]]
        err == format_envd_api_exception(status)
    IN  IF content = <<>> THEN Done(<<>>, <<>>, "ValueError")
        ELSE IF err # None THEN Done(<<request>>, <<>>, err)
        ELSE Done(<<request>>, <<[path |-> path]>>, None)

RECURSIVE lstrip(_, _)
\* str.lstrip(chars) for one character
lstrip(path, char) ==
    IF path # <<>> /\ Head(path) = char THEN lstrip(Tail(path), char)
    ELSE path

\* download_url = f"/download/{path.lstrip('/')}"
download_url(path) == <<"/", "download", "/">> \o lstrip(path, "/")

RECURSIVE url_path(_)
\* The path of the request the HTTP client makes of a relative URL: what
\* stands before the first "?" or "#"; the rest is query and fragment
url_path(url) ==
    IF url = <<>> \/ Head(url) \in {"?", "#"} THEN <<>>
    ELSE <<Head(url)>> \o url_path(Tail(url))

\* GET /download/{path}: the file the agent serves for a request path
served_file(request_path) == <<"/">> \o SubSeq(request_path, 4, Len(request_path))

\* The agent's answer to a download: the file, 404 without it, or a failure
DownloadReplies(files, request_path) ==
    LET file == served_file(request_path)
    IN  (IF file \in DOMAIN files /\ files[file] # <<>>
         THEN {[status |-> 200, content |-> files[file][1]]}
         ELSE {[status |-> 404, content |-> <<>>]})
        \cup {[status |-> 500, content |-> <<>>]}

\* Filesystem.read(path, format), for the agent's answer
Filesystem_read(path, format, reply) ==
    LET request == [route |-> url_path(download_url(path))]
        err == format_envd_api_exception(reply.status)
    IN  IF err # None THEN Done(<<request>>, <<>>, err)
        ELSE IF format = "text"
             THEN Done(<<request>>, <<decode_utf8(reply.content)>>, None)
        ELSE Done(<<request>>, <<reply.content>>, None)

DirPaths == {<<"/", "a">>, <<"/", "d">>}

\* The agent's answer to an RPC reaches the driver as a normal return (code
\* "ok") or as an exception with a status code and a text, str(e)
RpcOk == [code |-> "ok", text |-> ""]

RpcFailures ==
    {[code |-> "unavailable", text |-> "connection reset"],
     [code |-> "permission_denied", text |-> "permission denied"]}

\* What the agent answers to MakeDir, by what stands at the path
MakeDirReplies(dirs, files, path) ==
    (IF path \in dirs
     THEN {[code |-> "already_exists", text |-> "directory already exists"]}
     ELSE IF path \in DOMAIN files /\ files[path] # <<>>
     THEN {[code |-> "already_exists", text |-> "file exists"]}
     ELSE {RpcOk})
    \cup RpcFailures

\* "directory already exists" in str(e)
MentionsDirectoryExists(text) == text = "directory already exists"

\* A make_dir that treats every failure alike
Filesystem_make_dir_raises(path, reply) ==
    LET request == [rpc |-> "MakeDir", path |-> path]
    IN  IF reply.code = "ok" THEN Done(<<request>>, <<"True">>, None)
        ELSE Done(<<request>>, <<>>, "handle_rpc_exception(e)")

\* Filesystem.make_dir(path), for the agent's answer
Filesystem_make_dir(path, reply) ==
    LET request == [rpc |-> "MakeDir", path |-> path]
    IN  IF reply.code = "ok" THEN Done(<<request>>, <<"True">>, None)
        ELSE IF MentionsDirectoryExists(reply.text)
             THEN Done(<<request>>, <<"False">>, None)
        ELSE Done(<<request>>, <<>>, "handle_rpc_exception(e)")

\* A list that leaves the check of depth to the agent
Filesystem_list_unchecked(path, depth, reply) ==
    LET request == [rpc |-> "ListDir", path |-> path, depth |-> depth]
    IN  IF reply.code = "ok" THEN Done(<<request>>, <<"entries">>, None)
        ELSE Done(<<request>>, <<>>, "handle_rpc_exception(e)")

\* Filesystem.list(path, depth), depth <<>> for None, for the agent's answer
Filesystem_list(path, depth, reply) ==
    LET request == [rpc |-> "ListDir", path |-> path, depth |-> depth]
    IN  IF depth # <<>> /\ depth[1] < 1
        THEN Done(<<>>, <<>>, "InvalidArgumentException")
        ELSE IF reply.code = "ok" THEN Done(<<request>>, <<"entries">>, None)
        ELSE Done(<<request>>, <<>>, "handle_rpc_exception(e)")

\* The envd versions a sandbox can report
EnvdVersions == {"0.1.3", "0.1.4", "v1.0"}

\* packaging.version.Version: the release of a version string
Version(text) ==
    CASE text = "0.1.3" -> <<0, 1, 3>>
      [] text = "0.1.4" -> <<0, 1, 4>>
      [] text = "v1.0" -> <<1, 0, 0>>

\* Version.__lt__
VersionLess(v, w) ==
    \/ v[1] < w[1]
    \/ v[1] = w[1] /\ v[2] < w[2]
    \/ v[1] = w[1] /\ v[2] = w[2] /\ v[3] < w[3]

\* The first envd version that watches recursively
ENVD_VERSION_RECURSIVE_WATCH == Version("0.1.4")

\* The _envd_version Sandbox.__init__ hands to its Filesystem, for the
\* version the server reported
Sandbox_envd_version(reported) == "v1.0"

\* Filesystem.watch_dir(path, recursive) of a driver constructed with
\* envd_version, for the agent's answer
Filesystem_watch_dir(envd_version, path, recursive, reply) ==
    LET request == [rpc |-> "CreateWatcher", path |-> path,
                    recursive |-> recursive]
    IN  IF /\ recursive
           /\ envd_version # None
           /\ VersionLess(Version(envd_version), ENVD_VERSION_RECURSIVE_WATCH)
        THEN Done(<<>>, <<>>, "TemplateException")
        ELSE IF reply.code = "ok"
             THEN Done(<<request>>, <<"WatchHandle">>, None)
        ELSE Done(<<request>>, <<>>, "handle_rpc_exception(e)")

\* The record of a call: its arguments, the agent's answer (the answer the
\* agent would give when no request is sent), how the call ended, and what
\* held when it was made
FsCall(op, path, arg, reply, r, before) ==
    [op |-> op, path |-> path, arg |-> arg, reply |-> reply,
     request |-> r.request, ret |-> r.ret, exc |-> r.exc, before |-> before]

FsNoCall ==
    FsCall(None, <<>>, <<>>, RpcOk, Done(<<>>, <<>>, None), <<>>)

FilesInit ==
    /\ fs_files = [p \in FilePaths |-> <<>>]
    /\ fs_written = [p \in FilePaths |-> <<>>]
    /\ fs_dirs = {}
    /\ fs_watchers = 0
    /\ fs_reported \in EnvdVersions
    /\ fs_last = FsNoCall

\* files.write(path, data): the agent stores the bytes of the file part
\* at the path of the form field
FilesWrite(path, data, status) ==
    /\ status \in (IF path \in fs_dirs THEN {507} ELSE {200, 507})
    /\ LET r == Filesystem_write(path, data, status)
           stored == r.exc = None
       IN  /\ fs_files' = IF stored
                          THEN [fs_files EXCEPT ![r.request[1].path] =
                                    <<r.request[1].file>>]
                          ELSE fs_files
           /\ fs_written' = IF stored
                            THEN [fs_written EXCEPT ![path] =
                                    <<[kind |-> data.kind,
                                       bytes |-> IF data.kind = "str"
                                                 THEN encode_utf8(data.val)
                                                 ELSE data.val]>>]
                            ELSE fs_written
           /\ fs_last' = FsCall("write", path, data,
                                [status |-> status], r, <<>>)
    /\ UNCHANGED <<fs_dirs, fs_watchers, fs_reported>>
    /\ UNCHANGED notFilesVars

\* files.read(path, format=format)
FilesRead(path, format, reply) ==
    /\ reply \in DownloadReplies(fs_files, url_path(download_url(path)))
    /\ fs_last' = FsCall("read", path, format, reply,
                         Filesystem_read(path, format, reply),
                         fs_written[path])
    /\ UNCHANGED <<fs_files, fs_written, fs_dirs, fs_watchers, fs_reported>>
    /\ UNCHANGED notFilesVars

\* files.make_dir(path)
FilesMakeDir(path, reply) ==
    /\ reply \in MakeDirReplies(fs_dirs, fs_files, path)
    /\ fs_last' = FsCall("make_dir", path, <<>>, reply,
                         Filesystem_make_dir(path, reply),
                         <<path \in fs_dirs>>)
    /\ fs_dirs' = IF reply.code = "ok" THEN fs_dirs \cup {path} ELSE fs_dirs
    /\ UNCHANGED <<fs_files, fs_written, fs_watchers, fs_reported>>
    /\ UNCHANGED notFilesVars

\* files.list(path, depth=depth)
FilesList(path, depth, reply) ==
    /\ fs_last' = FsCall("list", path, depth, reply,
                         Filesystem_list(path, depth, reply), <<>>)
    /\ UNCHANGED <<fs_files, fs_written, fs_dirs, fs_watchers, fs_reported>>
    /\ UNCHANGED notFilesVars

\* files.watch_dir(path, recursive=recursive) on the handle of the sandbox;
\* the agent creates the watcher of a request it answers with ok
FilesWatchDir(path, recursive, reply) ==
    /\ LET envd_version == Sandbox_envd_version(fs_reported)
           r == Filesystem_watch_dir(envd_version, path, recursive, reply)
           created == r.request # <<>> /\ reply.code = "ok"
       IN  /\ created => fs_watchers < MaxWatchers
           /\ fs_watchers' = IF created THEN fs_watchers + 1 ELSE fs_watchers
           /\ fs_last' = FsCall("watch_dir", path, recursive, reply, r,
                                <<envd_version>>)
    /\ UNCHANGED <<fs_files, fs_written, fs_dirs, fs_reported>>
    /\ UNCHANGED notFilesVars

\* The bytes a read returned: the encoded text of a text read, the buffer
\* of a bytes read
ReadBytes(call) ==
    IF call.arg = "text" THEN encode_utf8(call.ret[1]) ELSE call.ret[1]

\* C17: a successful read of a path after a successful write of it, with no
\* other write to that path in between, returns the bytes that were
\* written (text written is compared by its UTF-8 encoding; binary content
\* is read as bytes).
C17_ReadReturnsWritten ==
    (/\ fs_last.op = "read"
     /\ fs_last.exc = None
     /\ fs_last.before # <<>>
     /\ (fs_last.arg # "text" \/ fs_last.before[1].kind = "str")) =>
        ReadBytes(fs_last) = fs_last.before[1].bytes

\* C17 reachable case: binary content that is not valid UTF-8 was written
\* and then read back as bytes.
C17_Witness ==
    /\ fs_last.op = "read"
    /\ fs_last.exc = None
    /\ fs_last.arg = "bytes"
    /\ fs_last.before # <<>>
    /\ fs_last.before[1].bytes = <<255>>
    /\ fs_last.ret = <<(<<255>>)>>

\* C18: make_dir returns true exactly when the agent created the directory,
\* returns false exactly when the agent reports that the directory already
\* exists, which it does for a directory an earlier make_dir created, and
\* raises on every other answer.
C18_MakeDirOutcome ==
    fs_last.op = "make_dir" =>
        /\ (fs_last.ret = <<"True">>) <=> (fs_last.reply.code = "ok")
        /\ (fs_last.ret = <<"False">>) <=>
               (fs_last.reply = [code |-> "already_exists",
                                 text |-> "directory already exists"])
        /\ (fs_last.exc # None) <=> (fs_last.ret = <<>>)
        /\ fs_last.ret = <<"True">> => fs_last.path \in fs_dirs
        /\ fs_last.ret = <<"False">> => fs_last.before[1]
        /\ (fs_last.before[1] /\ fs_last.reply \notin RpcFailures) =>
               fs_last.ret = <<"False">>

\* C18 reachable case: the second make_dir of a directory returned false.
C18_Witness ==
    /\ fs_last.op = "make_dir"
    /\ fs_last.before[1]
    /\ fs_last.ret = <<"False">>
    /\ fs_last.exc = None

\* C19: list with a depth below 1 raises InvalidArgument and sends no
\* request.
C19_ListDepthCheckedLocally ==
    (/\ fs_last.op = "list"
     /\ fs_last.arg # <<>>
     /\ fs_last.arg[1] < 1) =>
        /\ fs_last.exc = "InvalidArgumentException"
        /\ fs_last.request = <<>>

\* C19 reachable case: list with depth 0 was called while the agent would
\* have answered the request.
C19_Witness ==
    /\ fs_last.op = "list"
    /\ fs_last.arg = <<0>>
    /\ fs_last.reply.code = "ok"
    /\ fs_last.exc = "InvalidArgumentException"

\* C20: a recursive watch_dir on a sandbox that reported an envd version
\* below ENVD_VERSION_RECURSIVE_WATCH raises the Template error and sends
\* no CreateWatcher, and the version the check compares is the one the
\* server reported for the sandbox.
C20_RecursiveWatchNeedsReportedVersion ==
    (fs_last.op = "watch_dir" /\ fs_last.arg) =>
        /\ Version(fs_last.before[1]) = Version(fs_reported)
        /\ VersionLess(Version(fs_reported), ENVD_VERSION_RECURSIVE_WATCH) =>
               /\ fs_last.exc = "TemplateException"
               /\ fs_last.request = <<>>

\* C20 reachable case: a recursive watch on a sandbox that reported a
\* version below ENVD_VERSION_RECURSIVE_WATCH.
C20_Witness ==
    /\ fs_last.op = "watch_dir"
    /\ fs_last.arg
    /\ VersionLess(Version(fs_reported), ENVD_VERSION_RECURSIVE_WATCH)

(***************************************************************************)
(* ------------- the connection configuration and its timeouts ----------- *)
(***************************************************************************)
\* The environments of the model: each SBX_* variable unset or set
Envs ==
    [SBX_DOMAIN : {None, "env.dev"}, SBX_DEBUG : {None, "true", "false"},
     SBX_API_KEY : {None, "envkey"}, SBX_ACCESS_TOKEN : {None},
     SBX_DEBUG_HOST : {None}]

\* The arguments of ConnectionConfig(...), None for one that is not passed
ConfigArgs ==
    [domain : {None, "arg.dev"}, debug : {None, "True", "False"},
     api_key : {None, "argkey"}, access_token : {None},
     debug_host : {None},
     request_timeout : {NoTimeout, <<0>>, <<5>>}]

\* ConnectionConfig._get_request_timeout
_get_request_timeout(default_timeout, request_timeout) ==
    IF request_timeout = <<0>> THEN NoTimeout
    ELSE IF request_timeout # NoTimeout THEN request_timeout
    ELSE default_timeout

\* ConnectionConfig.get_request_timeout
get_request_timeout(config, request_timeout) ==
    _get_request_timeout(config.request_timeout, request_timeout)

\* The request timeout run_code works with, for the per-call argument:
\* request_timeout = request_timeout or self._connection_config.request_timeout.
\* The sync facade then adds it to time.time(), a TypeError when it is None.
run_code_request_timeout(facade, config, request_timeout) ==
    LET resolved == IF TruthyNum(request_timeout) THEN request_timeout
                    ELSE config.request_timeout
    IN  IF facade = "sync" /\ resolved = NoTimeout
        THEN [ret |-> <<>>, exc |-> "TypeError"]
        ELSE [ret |-> <<resolved>>, exc |-> None]

CfCall(op, arg, ret, exc) == [op |-> op, arg |-> arg, ret |-> ret, exc |-> exc]

ConfigInit ==
    /\ cf_env = Env
    /\ cf_kw = [domain |-> None, debug |-> None, api_key |-> None,
                access_token |-> None, debug_host |-> None,
                request_timeout |-> NoTimeout]
    /\ cf_config = ConnectionConfig_init(cf_env, cf_kw)
    /\ cf_call = CfCall(None, NoTimeout, <<>>, None)

\* ConnectionConfig(**kw) in a process whose environment is env
ConfigConstruct(env, kw) ==
    /\ cf_env' = env
    /\ cf_kw' = kw
    /\ cf_config' = ConnectionConfig_init(env, kw)
    /\ cf_call' = CfCall(None, NoTimeout, <<>>, None)
    /\ UNCHANGED notConfigVars

\* An operation of the drivers resolving its per-call request_timeout with
\* connection_config.get_request_timeout(request_timeout)
ConfigGetRequestTimeout(request_timeout) ==
    /\ cf_call' = CfCall("get_request_timeout", request_timeout,
                         <<get_request_timeout(cf_config, request_timeout)>>,
                         None)
    /\ UNCHANGED <<cf_env, cf_kw, cf_config>>
    /\ UNCHANGED notConfigVars

\* run_code(code, request_timeout=request_timeout) of either facade
ConfigRunCode(facade, request_timeout) ==
    /\ LET r == run_code_request_timeout(facade, cf_config, request_timeout)
       IN  cf_call' = CfCall("run_code", request_timeout, r.ret, r.exc)
    /\ UNCHANGED <<cf_env, cf_kw, cf_config>>
    /\ UNCHANGED notConfigVars

\* C25: zero means no timeout everywhere: a config built with
\* request_timeout 0 has no timeout; get_request_timeout gives no timeout
\* for 0, t for t > 0 and the config's value for None; and run_code called
\* with request_timeout 0 runs without a request timeout.
C25_ZeroMeansNoTimeout ==
    /\ cf_kw.request_timeout = <<0>> => cf_config.request_timeout = NoTimeout
    /\ cf_call.op = "get_request_timeout" =>
           cf_call.ret[1] = IF cf_call.arg = <<0>> THEN NoTimeout
                            ELSE IF cf_call.arg # NoTimeout THEN cf_call.arg
                            ELSE cf_config.request_timeout
    /\ (cf_call.op = "run_code" /\ cf_call.arg = <<0>>) =>
           /\ cf_call.exc = None
           /\ cf_call.ret = <<NoTimeout>>

\* C25 reachable case: run_code was called with request_timeout 0 on a
\* config that has a request timeout.
C25_Witness ==
    /\ cf_call.op = "run_code"
    /\ cf_call.arg = <<0>>
    /\ cf_config.request_timeout # NoTimeout

\* What a field resolves to under strict precedence: the argument when one
\* is passed, else the environment variable when it is set, else the default
Precedence(arg, envvalue, default) ==
    IF arg # None THEN arg ELSE IF envvalue # None THEN envvalue ELSE default

\* C26: every field of the ConnectionConfig is the argument when one is
\* passed, else the environment variable when it is set, else the default;
\* so debug=False passed under SBX_DEBUG=true gives debug false.
C26_StrictPrecedence ==
    /\ cf_config.domain =
           Precedence(cf_kw.domain, cf_env.SBX_DOMAIN, "api.scalebox.dev/v1")
    /\ cf_config.api_key = Precedence(cf_kw.api_key, cf_env.SBX_API_KEY, None)
    /\ cf_config.access_token =
           Precedence(cf_kw.access_token, cf_env.SBX_ACCESS_TOKEN, None)
    /\ cf_config.debug_host =
           Precedence(cf_kw.debug_host, cf_env.SBX_DEBUG_HOST, "localhost")
    /\ cf_config.debug =
           Precedence(cf_kw.debug,
                      IF cf_env.SBX_DEBUG = None THEN None
                      ELSE IF lower(cf_env.SBX_DEBUG) = "true" THEN "True"
                      ELSE "False",
                      "False")

\* C26 reachable case: debug=False was passed while SBX_DEBUG is true.
C26_Witness ==
    /\ cf_kw.debug = "False"
    /\ cf_env.SBX_DEBUG = "true"

(***************************************************************************)
(* --------------- HTTP statuses to errors; management pause ------------- *)
(***************************************************************************)
\* The statuses a response carries in the model
Statuses == {200, 204, 301, 400, 401, 404, 409, 429, 500, 502, 507}

\* httpx.Response.is_success
is_success(status_code) == status_code >= 200 /\ status_code < 300

\* format_exception of the code interpreter, None for a success
format_exception(status_code) ==
    IF is_success(status_code) THEN None
    ELSE IF status_code = 404 THEN "NotFoundException"
    ELSE IF status_code = 502 THEN "TimeoutException"
    ELSE "SandboxException"

SandboxIds == {"sbx1", "sbx2"}

\* The management API's answer to POST /sandboxes/{id}/pause by the state of
\* the sandbox, or a failure of the API itself
PauseAnswers(state) ==
    (IF state = "running" THEN {204}
     ELSE IF state = "paused" THEN {409}
     ELSE {404})
    \cup {401, 500}

\* A pause that treats the conflict like every other failure
_cls_pause_raises409(sandbox_id, status_code) ==
    IF status_code = 404 THEN Outcome(TRUE, None, "NotFoundException")
    ELSE IF status_code >= 300 THEN Outcome(TRUE, None, ApiException)
    ELSE Outcome(TRUE, sandbox_id, None)

\* SandboxApi._cls_pause for the status of the API's answer
_cls_pause(sandbox_id, status_code) ==
    IF status_code = 404 THEN Outcome(TRUE, None, "NotFoundException")
    ELSE IF status_code = 409 THEN Outcome(TRUE, sandbox_id, None)
    ELSE IF status_code >= 300 THEN Outcome(TRUE, None, ApiException)
    ELSE Outcome(TRUE, sandbox_id, None)

ApCall(op, arg, status, ret, exc, before) ==
    [op |-> op, arg |-> arg, status |-> status, ret |-> ret, exc |-> exc,
     before |-> before]

ApiInit ==
    /\ ap_state = [s \in SandboxIds |-> "running"]
    /\ ap_last = ApCall(None, None, 200, None, None, None)

\* handle_envd_api_exception(res) on a response of the agent
HandleEnvdApiException(status_code) ==
    /\ ap_last' = ApCall("format_envd_api_exception", None, status_code, None,
                         format_envd_api_exception(status_code), None)
    /\ UNCHANGED ap_state
    /\ UNCHANGED notApiVars

\* extract_exception(res) on a response of the code interpreter
ExtractException(status_code) ==
    /\ ap_last' = ApCall("format_exception", None, status_code, None,
                         format_exception(status_code), None)
    /\ UNCHANGED ap_state
    /\ UNCHANGED notApiVars

\* SandboxApi._cls_pause(sandbox_id); the API pauses a running sandbox
ApiPause(sandbox_id, status_code) ==
    /\ status_code \in PauseAnswers(ap_state[sandbox_id])
    /\ LET r == _cls_pause(sandbox_id, status_code)
       IN  ap_last' = ApCall("pause", sandbox_id, status_code, r.ret, r.exc,
                             ap_state[sandbox_id])
    /\ ap_state' = IF is_success(status_code)
                   THEN [ap_state EXCEPT ![sandbox_id] = "paused"]
                   ELSE ap_state
    /\ UNCHANGED notApiVars

\* The management API resumes a paused sandbox
ApiResume(sandbox_id) ==
    /\ ap_state[sandbox_id] = "paused"
    /\ ap_state' = [ap_state EXCEPT ![sandbox_id] = "running"]
    /\ UNCHANGED ap_last
    /\ UNCHANGED notApiVars

\* The sandbox is killed or times out
ApiGone(sandbox_id) ==
    /\ ap_state[sandbox_id] # "gone"
    /\ ap_state' = [ap_state EXCEPT ![sandbox_id] = "gone"]
    /\ UNCHANGED ap_last
    /\ UNCHANGED notApiVars

\* The error kind the mapping of the SDK gives a status
ErrorKind(status_code) ==
    IF is_success(status_code) THEN None
    ELSE IF status_code = 400 THEN "InvalidArgumentException"
    ELSE IF status_code = 401 THEN "AuthenticationException"
    ELSE IF status_code = 404 THEN "NotFoundException"
    ELSE IF status_code = 429 THEN "RateLimitException"
    ELSE IF status_code = 502 THEN "TimeoutException"
    ELSE IF status_code = 507 THEN "NotEnoughSpaceException"
    ELSE "SandboxException"

\* The class of the exception a mapping made
ClassOf(exc) ==
    IF exc = "sandbox_timeout_exception(message)" THEN "TimeoutException"
    ELSE exc

\* C22: both mappings of a response to an error give 400 InvalidArgument,
\* 401 Authentication, 404 NotFound, 429 RateLimit, 502 Timeout, 507
\* NotEnoughSpace, Sandbox for every other failure status, and no error for
\* a success.
C22_StatusToErrorKind ==
    ap_last.op \in {"format_envd_api_exception", "format_exception"} =>
        ClassOf(ap_last.exc) = ErrorKind(ap_last.status)

\* C22 reachable case: a 429 response of the agent was mapped.
C22_Witness ==
    /\ ap_last.op = "format_envd_api_exception"
    /\ ap_last.status = 429

\* C23: pause raises NotFound on 404, returns the sandbox id on 409 and on
\* success, and raises on every other status from 300 on; so the pause of
\* a sandbox that is already paused returns normally when the API answers
\* it.
C23_PauseOutcome ==
    ap_last.op = "pause" =>
        /\ ap_last.status = 404 => ap_last.exc = "NotFoundException"
        /\ ap_last.status = 409 =>
               ap_last.exc = None /\ ap_last.ret = ap_last.arg
        /\ (ap_last.status >= 300 /\ ap_last.status \notin {404, 409}) =>
               ap_last.exc = ApiException
        /\ ap_last.status < 300 =>
               ap_last.exc = None /\ ap_last.ret = ap_last.arg
        /\ (ap_last.before = "paused" /\ ap_last.status \notin {401, 500}) =>
               ap_last.exc = None

\* C23 reachable case: a sandbox that was already paused was paused again
\* and the call returned its id.
C23_Witness ==
    /\ ap_last.op = "pause"
    /\ ap_last.before = "paused"
    /\ ap_last.status = 409
    /\ ap_last.ret = ap_last.arg

(***************************************************************************)
(* ------------------ headers of the requests to the agent --------------- *)
(***************************************************************************)
\* Headers are sets of <<name, value>> pairs
BearerRoot == {<<"Authorization", "Bearer root">>}

\* The envd access token the management API answers with: none, the Unset
\* marker of the generated client, or a token
ResponseTokens == {None, "Unset", "tok1", "tok2"}

\* envd_access_token is not None and not isinstance(envd_access_token, Unset)
IsToken(token) == token \notin {None, "Unset"}

\* The token and the connection headers Sandbox.create and Sandbox.connect
\* give the handle, for the token in the API's response
handle_headers(how, debug, response_token) ==
    LET envd_access_token == IF how = "create" /\ debug THEN "123456789"
                             ELSE response_token
    IN  [token |-> envd_access_token,
         debug |-> debug,
         headers |-> BearerRoot \cup
                     (IF IsToken(envd_access_token)
                      THEN {<<"X-Access-Token", envd_access_token>>}
                      ELSE {})]

\* The operations of a handle that send a request to the agent, by facade
AgentOps ==
    {<<"sync", c, o>> :
         c \in {"filesystem"}, o \in {"rpc", "read", "write"}}
    \cup {<<f, "commands", "rpc">> : f \in Facades}
    \cup {<<"async", "pty", "rpc">>}
    \cup {<<f, "code_interpreter", o>> :
              f \in Facades,
              o \in {"run_code", "create_code_context", "destroy_context"}}

\* The headers one operation puts on its request; sent is FALSE when the
\* operation fails before it sends one
request_headers(facade, component, op, headers) ==
    IF component # "code_interpreter"
    THEN [sent |-> TRUE, headers |-> headers]
    ELSE IF facade = "async"
    THEN [sent |-> TRUE, headers |-> BearerRoot]
    ELSE IF op = "create_code_context"
    THEN [sent |-> FALSE, headers |-> {}]
    ELSE [sent |-> TRUE, headers |-> headers]

HdNoRequest ==
    [facade |-> None, component |-> None, op |-> None, sent |-> FALSE,
     headers |-> {}]

HeadersInit ==
    /\ hd_token = None
    /\ hd_config = [debug |-> FALSE, headers |-> BearerRoot]
    /\ hd_last = HdNoRequest

\* Sandbox.create(...) or Sandbox.connect(sandbox_id) makes the handle
HandleCreate(how, debug, response_token) ==
    /\ LET h == handle_headers(how, debug, response_token)
       IN  /\ hd_token' = h.token
           /\ hd_config' = [debug |-> h.debug, headers |-> h.headers]
    /\ hd_last' = HdNoRequest
    /\ UNCHANGED notHeadersVars

\* One operation of the handle
HandleRequest(facade, component, op) ==
    /\ LET r == request_headers(facade, component, op, hd_config.headers)
       IN  hd_last' = [facade |-> facade, component |-> component, op |-> op,
                       sent |-> r.sent, headers |-> r.headers]
    /\ UNCHANGED <<hd_token, hd_config>>
    /\ UNCHANGED notHeadersVars

\* C21: every request a handle sends to the agent carries Authorization:
\* Bearer root, and carries the handle's envd access token as
\* X-Access-Token when the handle has one.
C21_AgentRequestHeaders ==
    hd_last.sent =>
        /\ <<"Authorization", "Bearer root">> \in hd_last.headers
        /\ IsToken(hd_token) =>
               <<"X-Access-Token", hd_token>> \in hd_last.headers

\* C21 reachable case: the async run_code of a handle that has an envd
\* access token sent its request.
C21_Witness ==
    /\ hd_last.sent
    /\ hd_last.facade = "async"
    /\ hd_last.op = "run_code"
    /\ IsToken(hd_token)

(***************************************************************************)
(* ----------------- the pooled resources of a handle; kill -------------- *)
(***************************************************************************)
\* The pooled resources Sandbox.__init__ opens: the httpx transport, the
\* httpx client of the envd API and the urllib3 pool of the RPC clients
HandlePools == {"_transport", "_envd_api", "_urllib3_pool"}

\* The pools of a handle after Sandbox.__init__: all open, no connection yet
Sandbox_init_pools == [p \in HandlePools |-> 0]

\* The pools of a handle after its kill(): the method closes none of them
Sandbox_kill_pools(pools) == pools

\* Sandbox.__exit__: self.kill()
Sandbox_exit(config, status) == Sandbox_kill(config, NoTimeout, status)

PlNoCall == [op |-> None, sent |-> FALSE, exc |-> None]

PoolsInit ==
    /\ pl_handles = 1
    /\ pl_pools = Sandbox_init_pools
    /\ pl_killed = FALSE
    /\ pl_last = PlNoCall

\* A new handle: Sandbox.create builds the object for a new sandbox
PoolsNewHandle ==
    /\ pl_handles < MaxHandles
    /\ pl_handles' = pl_handles + 1
    /\ pl_pools' = Sandbox_init_pools
    /\ pl_killed' = FALSE
    /\ pl_last' = PlNoCall
    /\ UNCHANGED notPoolsVars

\* A request of the handle opens a connection in the pool it goes through
PoolsRequest(pool) ==
    /\ pool \in DOMAIN pl_pools
    /\ pl_pools[pool] < MaxConns
    /\ pl_pools' = [pl_pools EXCEPT ![pool] = @ + 1]
    /\ UNCHANGED <<pl_handles, pl_killed, pl_last>>
    /\ UNCHANGED notPoolsVars

\* sandbox.kill(request_timeout), called directly or by __exit__ at the end
\* of a with block
PoolsKill(via, request_timeout, status) ==
    /\ status \in ApiAnswers(204, ~pl_killed)
    /\ via = "__exit__" => request_timeout = NoTimeout
    /\ LET config == HandleConfig("False", NoTimeout)
           r == IF via = "__exit__" THEN Sandbox_exit(config, status)
                ELSE Sandbox_kill(config, request_timeout, status)
       IN  /\ pl_last' = [op |-> via, sent |-> r.sent, exc |-> r.exc]
           /\ pl_killed' = (pl_killed \/ (r.sent /\ status = 204))
    /\ pl_pools' = Sandbox_kill_pools(pl_pools)
    /\ UNCHANGED pl_handles
    /\ UNCHANGED notPoolsVars

\* C24: when kill has ended, called directly or through __exit__, the kill
\* was dispatched to the management API and the handle has no open pool.
C24_KillReleasesPools ==
    pl_last.op # None =>
        /\ pl_last.sent
        /\ DOMAIN pl_pools = {}

\* C24 reachable case: the with block of a handle that has an open
\* connection in its urllib3 pool ended, and __exit__ has run.
C24_Witness ==
    /\ pl_last.op = "__exit__"
    /\ "_urllib3_pool" \in DOMAIN pl_pools
    /\ pl_pools["_urllib3_pool"] > 0

(***************************************************************************)
(* --------------------------- files: batch write ------------------------ *)
(***************************************************************************)
BatchPaths == {<<"/", "a">>, <<"/", "b">>}

\* The entries a batch is made of
WriteEntries ==
    {[path |-> <<"/", "a">>, data |-> [kind |-> "str", val |-> <<233>>]],
     [path |-> <<"/", "a">>, data |-> [kind |-> "bytes", val |-> <<255>>]],
     [path |-> <<"/", "b">>, data |-> [kind |-> "bytes", val |-> <<255>>]],
     [path |-> <<"/", "b">>, data |-> [kind |-> "bytearray", val |-> <<0>>]]}

\* The batches of the model, with the agent's answer to each upload
Batches == UNION {[1..n -> WriteEntries] : n \in 0..MaxBatch}

RECURSIVE write_files_continue(_, _, _)
\* A loop that goes on to the next entry when an upload fails
write_files_continue(files, statuses, results) ==
    IF files = <<>> THEN Done(<<>>, <<results>>, None)
    ELSE LET r == Filesystem_write(Head(files).path, Head(files).data,
                                   Head(statuses))
             rest == write_files_continue(
                         Tail(files), Tail(statuses),
                         IF r.exc = None THEN results \o r.ret ELSE results)
         IN  Done(r.request \o rest.request, rest.ret, rest.exc)

RECURSIVE write_files(_, _, _)
\* The loop of Filesystem.write over write_files: one upload per entry, in
\* order; the first failure is raised; results collects the WriteInfo
write_files(files, statuses, results) ==
    IF files = <<>> THEN Done(<<>>, <<results>>, None)
    ELSE LET r == Filesystem_write(Head(files).path, Head(files).data,
                                   Head(statuses))
         IN  IF r.exc # None THEN Done(r.request, <<>>, r.exc)
             ELSE LET rest == write_files(Tail(files), Tail(statuses),
                                          results \o r.ret)
                  IN  Done(r.request \o rest.request, rest.ret, rest.exc)

\* Filesystem.write(files) with a list of entries
Filesystem_write_batch(files, statuses) ==
    IF Len(files) = 0 THEN Done(<<>>, <<(<<>>)>>, None)
    ELSE write_files(files, statuses, <<>>)

RECURSIVE upload(_, _, _)
\* The agent stores the file of every upload it answers with a success
upload(stored, requests, statuses) ==
    IF requests = <<>> THEN stored
    ELSE upload(IF is_success(Head(statuses))
                THEN [stored EXCEPT ![Head(requests).path] =
                          <<Head(requests).file>>]
                ELSE stored,
                Tail(requests), Tail(statuses))

BatchInit ==
    /\ bw_files = [p \in BatchPaths |-> <<>>]
    /\ bw_last = [files |-> <<>>, statuses |-> <<>>, request |-> <<>>,
                  ret |-> <<>>, exc |-> None,
                  before |-> [p \in BatchPaths |-> <<>>], called |-> FALSE]

\* files.write(files): statuses are the agent's answers to the uploads of
\* the entries, in order
BatchWrite(files, statuses) ==
    /\ Len(statuses) = Len(files)
    /\ LET r == Filesystem_write_batch(files, statuses)
       IN  /\ bw_files' = upload(bw_files, r.request, statuses)
           /\ bw_last' = [files |-> files, statuses |-> statuses,
                          request |-> r.request, ret |-> r.ret,
                          exc |-> r.exc, before |-> bw_files,
                          called |-> TRUE]
    /\ UNCHANGED notBatchVars

\* Entry i of the last batch fails: its data has no supported type, or the
\* agent answers its upload with a failure
EntryFails(i) ==
    \/ bw_last.files[i].data.kind \notin {"str", "bytes"}
    \/ ~is_success(bw_last.statuses[i])

\* The entries of the last batch before its first failing entry
EntriesDone ==
    {i \in 1..Len(bw_last.files) : \A j \in 1..i : ~EntryFails(j)}

\* The bytes of entry i of the last batch
EntryBytes(i) ==
    IF bw_last.files[i].data.kind = "str"
    THEN encode_utf8(bw_last.files[i].data.val)
    ELSE bw_last.files[i].data.val

\* C29: a batch write uploads its entries one at a time in list order up to
\* the first entry that fails; when an entry fails the call raises and
\* returns nothing, the entries before it stay written and the entries
\* after it are not sent; a call that completes returns one WriteInfo per
\* entry in the order of the entries, and an empty batch returns the empty
\* list and sends nothing. On the sandbox every path then holds the bytes of
\* the last entry for it before the first failing entry, and what it held
\* before the call when there is no such entry.
C29_BatchWrite ==
    bw_last.called =>
        LET n == Len(bw_last.files)
            done == Cardinality(EntriesDone)
        IN  /\ Len(bw_last.request) \in {done, done + 1}
            /\ Len(bw_last.request) <= n
            /\ \A i \in 1..Len(bw_last.request) :
                   /\ bw_last.request[i].path = bw_last.files[i].path
                   /\ bw_last.request[i].file = EntryBytes(i)
            /\ done < n =>
                   /\ bw_last.exc # None
                   /\ bw_last.ret = <<>>
            /\ done = n =>
                   /\ bw_last.exc = None
                   /\ Len(bw_last.ret[1]) = n
                   /\ \A i \in 1..n :
                          bw_last.ret[1][i].path = bw_last.files[i].path
            /\ n = 0 => bw_last.request = <<>> /\ bw_last.ret = <<(<<>>)>>
            /\ \A p \in BatchPaths :
                   LET mine == {i \in EntriesDone : bw_last.files[i].path = p}
                   IN  IF mine = {} THEN bw_files[p] = bw_last.before[p]
                       ELSE \E i \in mine :
                                /\ \A j \in mine : j <= i
                                /\ bw_files[p] = <<EntryBytes(i)>>

\* C29 reachable case: the second entry of a batch of two failed on the
\* agent after the first was written.
C29_Witness ==
    /\ bw_last.called
    /\ Len(bw_last.files) = 2
    /\ bw_last.statuses = <<200, 507>>
    /\ bw_last.exc = "NotEnoughSpaceException"
    /\ bw_files[bw_last.files[1].path] # <<>>

(***************************************************************************)
(* ------------------- upload and download URLs of a handle -------------- *)
(***************************************************************************)
\* The paths a URL is asked for; <<"None">> stands for path=None
UrlPaths == {<<"None">>, <<"/", "a">>, <<"a">>, <<"/", "a", "?", "v">>}

\* get_signature(path, operation, user, token, expiration_in_seconds): the
\* signature and, when an expiration is asked for, the time it expires
get_signature(path, operation, user, token, expiration) ==
    [signature |-> "v1_" \o operation \o "_" \o user \o "_" \o token,
     expiration |-> IF expiration = <<>> THEN <<>> ELSE <<1000 + expiration[1]>>]

\* urllib.parse.quote of one character of a path
quote_char(c) == IF c = "?" THEN "%3F" ELSE c

\* urllib.parse.quote of a path
quote(path) == [i \in 1..Len(path) |-> quote_char(path[i])]

\* A URL that was built, or the exception instead of it
Url(route, target, query, exc) ==
    [route |-> route, target |-> target, query |-> query, exc |-> exc]

\* SandboxSetup._file_url; signature is None or a string, and
\* signature_expiration is <<>> for None
_file_url(path, operation, user, signature, signature_expiration) ==
    LET route == IF operation = "write" THEN "/upload" ELSE "/download"
        target == IF operation = "write" THEN <<>>
                  ELSE url_path(lstrip(path, "/"))
        q1 == (IF operation = "write"
               THEN {<<"path", IF path = <<"None">> THEN path ELSE quote(path)>>}
               ELSE {})
              \cup {<<"username", user>>}
        q2 == IF Truthy(signature) THEN q1 \cup {<<"signature", signature>>}
              ELSE q1
    IN  IF operation # "write" /\ path = <<"None">>
        THEN Url(None, <<>>, {}, "AttributeError")
        ELSE IF TruthyNum(signature_expiration)
        THEN IF signature = None
             THEN Url(None, <<>>, {}, "ValueError")
             ELSE Url(route, target,
                      q2 \cup {<<"signature_expiration",
                                 signature_expiration[1]>>}, None)
        ELSE Url(route, target, q2, None)

\* SandboxSetup.upload_url
upload_url(token, path, user, use_signature_expiration) ==
    IF token # None
    THEN LET signature == get_signature(path, "write", user, token,
                                        use_signature_expiration)
         IN  _file_url(path, "write", user, signature.signature,
                       signature.expiration)
    ELSE _file_url(path, "read", "root", None, <<>>)

\* SandboxSetup.download_url
download_url_signed(token, path, user, use_signature_expiration) ==
    IF token # None
    THEN LET signature == get_signature(path, "read", user, token,
                                        use_signature_expiration)
         IN  _file_url(path, "read", user, signature.signature,
                       signature.expiration)
    ELSE _file_url(path, "read", "root", None, <<>>)

UrCall(op, path, user, expiration, url) ==
    [op |-> op, path |-> path, user |-> user, expiration |-> expiration,
     url |-> url]

UrlInit ==
    /\ ur_token = None
    /\ ur_last = UrCall(None, <<>>, "root", <<>>, Url(None, <<>>, {}, None))

\* The handle of another sandbox, with or without an envd access token
UrlHandle(token) ==
    /\ ur_token' = token
    /\ ur_last' = UrCall(None, <<>>, "root", <<>>, Url(None, <<>>, {}, None))
    /\ UNCHANGED notUrlVars

\* sandbox.upload_url(path, user, use_signature_expiration)
UploadUrl(path, user, expiration) ==
    /\ ur_last' = UrCall("upload_url", path, user, expiration,
                         upload_url(ur_token, path, user, expiration))
    /\ UNCHANGED ur_token
    /\ UNCHANGED notUrlVars

\* sandbox.download_url(path, user, use_signature_expiration)
DownloadUrl(path, user, expiration) ==
    /\ path # <<"None">>
    /\ ur_last' = UrCall("download_url", path, user, expiration,
                         download_url_signed(ur_token, path, user, expiration))
    /\ UNCHANGED ur_token
    /\ UNCHANGED notUrlVars

\* sandbox._file_url(path, operation, user, signature, signature_expiration)
FileUrl(path, operation, signature, expiration) ==
    /\ path # <<"None">>
    /\ ur_last' = UrCall("_file_url", path, "root", expiration,
                         _file_url(path, operation, "root", signature,
                                   expiration))
    /\ UNCHANGED ur_token
    /\ UNCHANGED notUrlVars

\* The names of the query parameters of a URL
QueryNames(url) == {q[1] : q \in url.query}

\* C30: upload_url returns a URL on the upload route whether or not the
\* handle has an envd access token; the URL has a signature exactly when
\* the handle has a token; and no URL is built with a signature expiration
\* and no signature.
C30_UploadUrlOnUploadRoute ==
    /\ ur_last.op = "upload_url" =>
           /\ ur_last.url.exc = None
           /\ ur_last.url.route = "/upload"
           /\ ("signature" \in QueryNames(ur_last.url)) <=> (ur_token # None)
    /\ "signature_expiration" \in QueryNames(ur_last.url) =>
           "signature" \in QueryNames(ur_last.url)

\* C30 reachable case: upload_url was asked of a handle without an envd
\* access token and returned a URL.
C30_Witness ==
    /\ ur_last.op = "upload_url"
    /\ ur_token = None
    /\ ur_last.url.exc = None

(***************************************************************************)
(* ------------------------ the deadline of run_code --------------------- *)
(***************************************************************************)
\* The default execution timeout of run_code, in seconds
DEFAULT_TIMEOUT == 300

\* timeout = None if timeout == 0 else (timeout or DEFAULT_TIMEOUT)
execution_timeout(timeout) ==
    IF timeout = <<0>> THEN NoTimeout
    ELSE IF TruthyNum(timeout) THEN timeout ELSE <<DEFAULT_TIMEOUT>>

\* deadline = time.time() + request_timeout + (timeout or 0)
deadline(now, request_timeout, timeout) ==
    now + request_timeout[1] + (IF TruthyNum(timeout) THEN timeout[1] ELSE 0)

\* ConnectClient.call_server_streaming(url, req, cls, extra_headers,
\* timeout_seconds): the timeout becomes the Connect-Timeout-Ms header of the
\* request, and the stream fails once it is as old as that
call_server_streaming(timeout_seconds) ==
    [connect_timeout_ms |-> IF timeout_seconds = NoTimeout THEN NoTimeout
                            ELSE <<timeout_seconds[1] * 1000>>]

\* ExecutionServiceClient.call_execute(req, extra_headers, timeout_seconds)
call_execute(timeout_seconds) == call_server_streaming(timeout_seconds)

\* ExecutionServiceClient._execute_iterator(req, extra_headers,
\* timeout_seconds): it calls self.call_execute(req, extra_headers), so that
\* call_execute works with its default timeout_seconds=None
_execute_iterator(timeout_seconds) == call_execute(NoTimeout)

\* ExecutionServiceClient.execute(req, extra_headers, timeout_seconds)
execute(timeout_seconds) == _execute_iterator(timeout_seconds)

\* The failures of a stream, by the text of the exception
StreamFailures == {"execution timeout", "deadline exceeded", "unavailable"}

\* The except branch of run_code: the exception raised for the text of e
run_code_except(text) ==
    IF text \in {"execution timeout"} THEN "format_execution_timeout_error"
    ELSE IF text \in {"deadline exceeded", "read timeout"}
    THEN "format_request_timeout_error"
    ELSE text

\* A stream is cut by the Connect-Timeout-Ms of its request and by the read
\* timeout of the pool, which counts the seconds without a frame
stream_cut(rpc, started, now, pool_timeout, silent) ==
    IF rpc.connect_timeout_ms # NoTimeout
       /\ (now - started) * 1000 >= rpc.connect_timeout_ms[1]
    THEN "deadline exceeded"
    ELSE IF TruthyNum(pool_timeout) /\ silent >= pool_timeout[1]
    THEN "read timeout"
    ELSE None

DlCall(timeout, request_timeout, started, dl, rpc, exc) ==
    [timeout |-> timeout, request_timeout |-> request_timeout,
     started |-> started, deadline |-> dl, rpc |-> rpc, exc |-> exc]

DlNoCall == DlCall(NoTimeout, NoTimeout, 0, 0, call_server_streaming(NoTimeout),
                   None)

\* A handle made with request_timeout=2
DeadlineInit ==
    /\ dl_pool_timeout = <<2>>
    /\ dl_now = 0
    /\ dl_silent = 0
    /\ dl_pc = "idle"
    /\ dl_call = DlNoCall

\* Another handle: the pool's timeout is the configuration's request_timeout
DeadlineHandle(request_timeout) ==
    /\ dl_pc = "idle"
    /\ dl_pool_timeout' = request_timeout
    /\ dl_call' = DlNoCall
    /\ UNCHANGED <<dl_now, dl_silent, dl_pc>>
    /\ UNCHANGED notDeadlineVars

\* run_code(code, timeout=..., request_timeout=...) up to the first read of
\* the response stream
DeadlineRunCode(timeout, request_timeout) ==
    /\ dl_pc = "idle"
    /\ dl_now < MaxClock
    /\ LET resolved == run_code_request_timeout(
                           "sync", [request_timeout |-> dl_pool_timeout],
                           request_timeout)
           t == execution_timeout(timeout)
       IN  IF resolved.exc # None
           THEN /\ dl_pc' = "raised"
                /\ dl_call' = DlCall(timeout, request_timeout, dl_now, 0,
                                     call_server_streaming(NoTimeout),
                                     run_code_except(resolved.exc))
           ELSE LET d == deadline(dl_now, resolved.ret[1], t)
                IN  /\ dl_pc' = "streaming"
                    /\ dl_call' = DlCall(timeout, request_timeout, dl_now, d,
                                         execute(<<d - dl_now>>), None)
    /\ dl_silent' = 0
    /\ UNCHANGED <<dl_pool_timeout, dl_now>>
    /\ UNCHANGED notDeadlineVars

\* A second passes while run_code reads the stream; the agent sends a frame
\* in it or not
DeadlineSecond(frame) ==
    /\ dl_pc = "streaming"
    /\ dl_now < MaxClock
    /\ LET silent == IF frame THEN 0 ELSE dl_silent + 1
           cut == stream_cut(dl_call.rpc, dl_call.started, dl_now + 1,
                             dl_pool_timeout, silent)
       IN  /\ dl_now' = dl_now + 1
           /\ dl_silent' = silent
           /\ IF cut = None
              THEN UNCHANGED <<dl_pc, dl_call>>
              ELSE /\ dl_pc' = "raised"
                   /\ dl_call' = [dl_call EXCEPT !.exc = run_code_except(cut)]
    /\ UNCHANGED dl_pool_timeout
    /\ UNCHANGED notDeadlineVars

\* The stream ends: run_code returns the execution
DeadlineStreamEnds ==
    /\ dl_pc = "streaming"
    /\ dl_pc' = "returned"
    /\ UNCHANGED <<dl_pool_timeout, dl_now, dl_silent, dl_call>>
    /\ UNCHANGED notDeadlineVars

\* The stream fails: run_code raises what its except branch makes of it
DeadlineStreamFails(text) ==
    /\ dl_pc = "streaming"
    /\ dl_pc' = "raised"
    /\ dl_call' = [dl_call EXCEPT !.exc = run_code_except(text)]
    /\ UNCHANGED <<dl_pool_timeout, dl_now, dl_silent>>
    /\ UNCHANGED notDeadlineVars

\* The caller goes on after run_code
DeadlineDone ==
    /\ dl_pc \in {"returned", "raised"}
    /\ dl_pc' = "idle"
    /\ UNCHANGED <<dl_pool_timeout, dl_now, dl_silent, dl_call>>
    /\ UNCHANGED notDeadlineVars

\* C27: a run_code with a non-zero execution timeout hands the time to its
\* deadline, now + request timeout + timeout, to the Execute RPC, and it is
\* never still reading the stream after that deadline.
C27_DeadlineBoundsRunCode ==
    (dl_pc = "streaming" /\ dl_call.timeout # <<0>>) =>
        /\ dl_call.rpc.connect_timeout_ms =
               <<(dl_call.deadline - dl_call.started) * 1000>>
        /\ dl_now <= dl_call.deadline

\* C27 reachable case: run_code with a non-zero execution timeout reads a
\* stream that has neither ended nor failed when the deadline is reached.
C27_Witness ==
    /\ dl_pc = "streaming"
    /\ dl_call.timeout # <<0>>
    /\ dl_now = dl_call.deadline

(***************************************************************************)
(* Specifications.                                                         *)
(***************************************************************************)
Init ==
    /\ RunInit
    /\ WatchInit
    /\ SandboxInit
    /\ StartInit
    /\ CommandsInit
    /\ ContextInit
    /\ FilesInit
    /\ ConfigInit
    /\ ApiInit
    /\ HeadersInit
    /\ PoolsInit
    /\ BatchInit
    /\ UrlInit
    /\ DeadlineInit

RunNext ==
    \/ \E f \in {"sync", "async"} : \E k \in HandlerKinds(f) : RunCode(f, k)
    \/ \E fr \in Frames : ServerEmit(fr)
    \/ \E s \in {"ok", "error"} : ServerClose(s)
    \/ RecvFrame
    \/ StreamEnd
    \/ TaskStart
    \/ TaskFinish

WatchNext ==
    \/ \E t \in EventTypes : FsEvent(t)
    \/ \E net \in RpcOutcomes : WatchStop(net)
    \/ \E net \in RpcOutcomes : WatchGetNewEvents(net)

SandboxNext ==
    \/ \E d \in {None, "True"} : \E id \in {None, "sbx"} :
           \E rt \in {NoTimeout, <<5>>} : \E st \in {0, 200, 201, 404, 500} :
               Create(d, id, rt, st)
    \/ \E r \in HealthReplies : GateProbe(r)
    \/ \E d \in {None, "True"} : \E st \in {200, 404, 500} : Connect(d, st)
    \/ \E d \in {None, "True"} : \E st \in {204, 404, 500} : StaticKill(d, st)
    \/ \E op \in InstanceOps : \E rt \in {NoTimeout, <<1>>} :
           \E st \in {200, 204, 404, 500} : InstanceCall(op, rt, st)

StartNext ==
    \/ \E op \in {"start", "connect"} : \E f \in {"sync", "async"} : StartCall(op, f)
    \/ \E fr \in StartFrames : AgentSend(fr)
    \/ AgentEnd
    \/ Handshake
    \/ HandshakeNoFrame

CommandsNext ==
    \/ \E f \in Facades : \E c \in {"ls", "sleep 9"} : \E d \in {None, "/tmp"} :
           \E b \in BOOLEAN : \E p \in Pids : CommandsRun(f, c, d, b, p)
    \/ \E p \in Pids : ProcessExit(p)
    \/ \E f \in Facades : \E p \in Pids :
           \E r \in {SignalOk} \cup SignalReplies({}, p) : CommandsKill(f, p, r)
    \/ \E p \in Pids : \E r \in {SignalOk} \cup SignalReplies({}, p) : PtyKill(p, r)

ContextNext ==
    \/ \E f \in Facades : \E l \in {None, "", "python"} :
           \E c \in {<<>>} \cup {<<i>> : i \in 1..MaxContexts} :
               RunCodeCheck(f, l, c)
    \/ \E f \in Facades : \E d \in {None, "/tmp"} : \E l \in {None, "r"} :
           \E r \in {ContextOk(i, lg, wd) : i \in 1..MaxContexts,
                         lg \in {"python", "r"}, wd \in {"/home/user", "/tmp"}}
                    \cup ContextFailures :
               CreateCodeContext(f, d, l, r)
    \/ \E f \in Facades : \E i \in 1..MaxContexts :
           \E r \in {ContextOk(i, "", ""), ContextError("not_found")}
                    \cup ContextFailures :
               DestroyContext(f, i, r)

FilesNext ==
    \/ \E p \in FilePaths : \E d \in FileData : \E st \in {200, 507} :
           FilesWrite(p, d, st)
    \/ \E p \in FilePaths : \E f \in {"text", "bytes", "stream"} :
           \E r \in {[status |-> st, content |-> c] :
                         st \in {200, 404, 500},
                         c \in {<<>>, <<255>>, <<195, 169>>}} :
               FilesRead(p, f, r)
    \/ \E p \in DirPaths :
           \E r \in {RpcOk} \cup RpcFailures
                    \cup {[code |-> "already_exists", text |-> t] :
                              t \in {"directory already exists",
                                     "file exists"}} :
               FilesMakeDir(p, r)
    \/ \E p \in DirPaths : \E d \in {<<>>, <<-1>>, <<0>>, <<1>>} :
           \E r \in {RpcOk} \cup RpcFailures : FilesList(p, d, r)
    \/ \E p \in DirPaths : \E rec \in BOOLEAN :
           \E r \in {RpcOk} \cup RpcFailures : FilesWatchDir(p, rec, r)

ConfigNext ==
    \/ \E env \in Envs : \E kw \in ConfigArgs : ConfigConstruct(env, kw)
    \/ \E t \in {NoTimeout, <<0>>, <<7>>} : ConfigGetRequestTimeout(t)
    \/ \E f \in Facades : \E t \in {NoTimeout, <<0>>, <<7>>} :
           ConfigRunCode(f, t)

ApiNext ==
    \/ \E st \in Statuses : HandleEnvdApiException(st)
    \/ \E st \in Statuses : ExtractException(st)
    \/ \E s \in SandboxIds : \E st \in Statuses : ApiPause(s, st)
    \/ \E s \in SandboxIds : ApiResume(s)
    \/ \E s \in SandboxIds : ApiGone(s)

HeadersNext ==
    \/ \E how \in {"create", "connect"} : \E debug \in BOOLEAN :
           \E t \in ResponseTokens : HandleCreate(how, debug, t)
    \/ \E o \in AgentOps : HandleRequest(o[1], o[2], o[3])

PoolsNext ==
    \/ PoolsNewHandle
    \/ \E p \in HandlePools : PoolsRequest(p)
    \/ \E via \in {"kill", "__exit__"} : \E t \in {NoTimeout, <<7>>} :
           \E st \in {204, 404, 500} : PoolsKill(via, t, st)

BatchNext ==
    \E files \in Batches : \E statuses \in [1..Len(files) -> {200, 507}] :
        BatchWrite(files, statuses)

UrlNext ==
    \/ \E t \in {None, "tok"} : UrlHandle(t)
    \/ \E p \in UrlPaths : \E u \in {"root", "user"} : \E e \in {<<>>, <<60>>} :
           UploadUrl(p, u, e)
    \/ \E p \in UrlPaths : \E u \in {"root", "user"} : \E e \in {<<>>, <<60>>} :
           DownloadUrl(p, u, e)
    \/ \E p \in UrlPaths : \E o \in {"read", "write"} :
           \E s \in {None, "", "sig"} : \E e \in {<<>>, <<60>>} :
               FileUrl(p, o, s, e)

DeadlineNext ==
    \/ \E r \in {NoTimeout, <<1>>, <<2>>} : DeadlineHandle(r)
    \/ \E t \in {NoTimeout, <<0>>, <<1>>, <<2>>} :
           \E r \in {NoTimeout, <<0>>, <<1>>} : DeadlineRunCode(t, r)
    \/ \E f \in BOOLEAN : DeadlineSecond(f)
    \/ DeadlineStreamEnds
    \/ \E text \in StreamFailures : DeadlineStreamFails(text)
    \/ DeadlineDone

SpecRun == Init /\ [][RunNext]_vars

SpecWatch == Init /\ [][WatchNext]_vars

SpecSandbox == Init /\ [][SandboxNext]_vars

SpecStart == Init /\ [][StartNext]_vars

SpecCommands == Init /\ [][CommandsNext]_vars

SpecContext == Init /\ [][ContextNext]_vars

SpecFiles == Init /\ [][FilesNext]_vars

SpecConfig == Init /\ [][ConfigNext]_vars

SpecApi == Init /\ [][ApiNext]_vars

SpecHeaders == Init /\ [][HeadersNext]_vars

SpecPools == Init /\ [][PoolsNext]_vars

SpecBatch == Init /\ [][BatchNext]_vars

SpecUrl == Init /\ [][UrlNext]_vars

SpecDeadline == Init /\ [][DeadlineNext]_vars

====
